---- MODULE Spec2Model ----
(***************************************************************************)
(* A model of the datapack library: the schema-driven binary decoder       *)
(* (load_binary), the schema token alphabet, the labelled-variant          *)
(* adapters, the Object node arena and the merge/diff algebra.             *)
(*                                                                         *)
(* Positions in token and byte vectors are 0-based as in the C++ source;   *)
(* the element at position p of a TLA+ sequence s is s[p + 1].             *)
(***************************************************************************)
EXTENDS Integers, Sequences, FiniteSets, TLC

VARIABLES
    \* ---- load_binary (src/src/format/binary_schema.cpp) ----
    in_type,     \* name of the visitable type the input was made from ("" for a raw schema)
    in_bytes,    \* write_binary(v), the whole encoding of the value the input was made from
    expect,      \* the calls write_object(v) sends to an ObjectWriter
    tokens,      \* schema.tokens
    data,        \* the byte vector handed to BinaryReader
    token_pos,   \* std::size_t token_pos
    states,      \* std::stack<State>, top is the last element
    reader,      \* BinaryReader: [pos, failed, arm]
    rcalls,      \* log of the calls made on the reader, with their results
    wcalls,      \* log of the calls made on the ObjectWriter
    pc,          \* "idle" | "head" | "dispatch" | "returned" | "threw" | "ub"
    exc,         \* message of the LoadException thrown ("" when none)
    steps,       \* number of loop iterations started
    heads,       \* history: the configurations the loop head has been left from
    \* ---- Token and Schema (src/src/schema/token.cpp) ----
    tk_pc,       \* "idle" | "compared" | "writing" | "reading" | "done" | "failed" | "ub"
    tk_lhs,      \* operands of operator==(const Token&, const Token&)
    tk_rhs,
    tk_eq,       \* its result
    tk_schema,   \* the Schema being written
    tk_wire,     \* what the writer has received, one item per token
    tk_read,     \* the tokens read back so far
    \* ---- labelled variants (common/variant.hpp, labelled_variant.hpp) ----
    vr_pc,       \* "idle" | "start" | "written" | "read" | "ub"
    vr_type,     \* the labelled variant type: [arms, labels]
    vr_arm,      \* index() of the value written
    vr_wcalls,   \* the calls write made on the writer
    vr_reader,   \* the reader read is driven by: [exhaustive, matches]
    vr_result,   \* what read did: [arm, calls, error, ub]
    \* ---- the Object node arena (include/datapack/object.hpp) ----
    ob_pc,       \* "idle" | "run" | "ub"
    ob_nodes,    \* State::nodes, node i is ob_nodes[i + 1]
    ob_free,     \* State::free, top is the last element
    ob_h,        \* the handle operations go through: [state, index]
    ob_op,       \* the last operation: [name, on, arg]
    ob_ret,      \* what it returned
    ob_exc,      \* the exception it raised ("" when none)
    ob_count,    \* number of mutating operations applied
    ob_empty_key, \* history: insert has added a child with the empty key
    \* ---- object_merge and object_diff (include/datapack/object.hpp) ----
    df_pc,       \* "idle" | "start" | "diffed" | "merged" | "rediffed" | "applied" | "undiffed"
    df_base,     \* the base tree
    df_other,    \* the second tree: a modified tree, or a diff to apply
    df_diff,     \* object_diff(df_base, df_other)
    df_merged,   \* object_merge(df_base, df_diff), or object_merge(df_base, df_other)
    df_back,     \* object_diff(df_base, df_merged)
    \* ---- DebugWriter (exercised by test/util/debug.cpp) ----
    dbg_pc,      \* "idle" | "open" | "done"
    dbg_stack,   \* the visitor's side: kinds of the containers it has open
    dbg_depth,   \* the writer's nesting depth
    dbg_key,     \* the writer's pending "key: " prefix ("" when none)
    dbg_lines,   \* the writer's output, one record per line
    dbg_scalars, \* number of scalar calls the visitor has made
    \* ---- constraints (constraint.hpp, common/primitive.hpp) ----
    cn_pc,       \* "idle" | "decoded" | "converted" | "validated" | "done"
    cn_kind,     \* kind of the value decoded: "I32" ... "F64", or "List"
    cn_value,    \* the value decoded (for a List: its number of elements)
    cn_c,        \* the constraint declared: [lower, upper] or [length]
    cn_double,   \* the argument of RangeConstraint::validate(double)
    cn_valid,    \* what validate returned
    cn_failed,   \* the reader's failure flag
    cn_error,    \* the error the reader recorded ("" when none)
    \* ---- label tables (labelled_variant.hpp, common/variant.hpp, example.cpp) ----
    lb_pc,       \* "idle" | "value" | "labelled" | "back" | "label" | "valued" | "relabelled" | "defined" | "enum_read" | "ub"
    lb_sum,      \* the labelled sum: "Physics" | "Shape" | "Token"
    lb_value,    \* the value to_label starts from (an enumerator or alternative)
    lb_label,    \* to_label(lb_value), or the label from_label starts from
    lb_back,     \* what from_label did: [kind, value, exc]
    lb_out,      \* to_label of the value from_label returned
    lb_def,      \* what define did: [calls, exc, ub]
    lb_index,    \* what reader.enumerate(labels) returned to read
    lb_target,   \* the enum read stores into, as its underlying value
    lb_failed    \* the failure flag of the reader read is given

inputVars == <<in_type, in_bytes, expect, tokens, data>>

loadVars == <<inputVars, token_pos, states, reader, rcalls, wcalls, pc, exc, steps,
              heads>>

tokenVars == <<tk_pc, tk_lhs, tk_rhs, tk_eq, tk_schema, tk_wire, tk_read>>

\* Each part of the library is run on its own: the variables of the other
\* parts stay at their initial values.
variantVars == <<vr_pc, vr_type, vr_arm, vr_wcalls, vr_reader, vr_result>>

objectVars == <<ob_pc, ob_nodes, ob_free, ob_h, ob_op, ob_ret, ob_exc, ob_count,
                ob_empty_key>>

diffVars == <<df_pc, df_base, df_other, df_diff, df_merged, df_back>>

debugVars == <<dbg_pc, dbg_stack, dbg_depth, dbg_key, dbg_lines, dbg_scalars>>

constraintVars == <<cn_pc, cn_kind, cn_value, cn_c, cn_double, cn_valid, cn_failed,
                    cn_error>>

enumVars == <<lb_index, lb_target, lb_failed>>

labelVars == <<lb_pc, lb_sum, lb_value, lb_label, lb_back, lb_out, lb_def, enumVars>>

notLoad == <<tokenVars, variantVars, objectVars, diffVars, debugVars, constraintVars, labelVars>>
notToken == <<loadVars, variantVars, objectVars, diffVars, debugVars, constraintVars, labelVars>>
notVariant == <<loadVars, tokenVars, objectVars, diffVars, debugVars, constraintVars, labelVars>>
notObject == <<loadVars, tokenVars, variantVars, diffVars, debugVars, constraintVars, labelVars>>
notDiff == <<loadVars, tokenVars, variantVars, objectVars, debugVars, constraintVars, labelVars>>
notDebug == <<loadVars, tokenVars, variantVars, objectVars, diffVars, constraintVars, labelVars>>
notConstraint == <<loadVars, tokenVars, variantVars, objectVars, diffVars, debugVars, labelVars>>
notLabel == <<loadVars, tokenVars, variantVars, objectVars, diffVars, debugVars,
             constraintVars>>

vars == <<loadVars, tokenVars, variantVars, objectVars, diffVars, debugVars,
          constraintVars, labelVars>>

\* ------------------------------------------------------------------------
\* Bounds of the model.
\* ------------------------------------------------------------------------

\* Longest list / map value generated for a visitable type.
MaxLen == 2
\* Longest Schema written and read back.
MaxSchemaLen == 2
\* Loop iterations of load_binary after which a run is cut off.
MaxSteps == 24
MaxNodes == 3
MaxOps == 3
MaxListLen == 2

\* ------------------------------------------------------------------------
\* Tokens.  One record shape for every token: kind, labels (Enumerate,
\* VariantBegin), str (ObjectNext.key, VariantNext.type), size
\* (TrivialBegin.size, TrivialEnd.size, Binary.stride).
\* ------------------------------------------------------------------------

Tok(kind) == [kind |-> kind, labels |-> <<>>, str |-> "", size |-> 0]
TokStr(kind, s) == [kind |-> kind, labels |-> <<>>, str |-> s, size |-> 0]
TokLabels(kind, ls) == [kind |-> kind, labels |-> ls, str |-> "", size |-> 0]
TokSize(kind, n) == [kind |-> kind, labels |-> <<>>, str |-> "", size |-> n]

\* Outcome of get_tokens_end when it throws LoadException("Invalid binary schema").
InvalidSchema == -1

\* depth is a std::size_t: depth-- at 0 wraps to 2^64 - 1.  The model keeps the
\* residue as a negative number; with fewer than 2^64 tokens the test
\* depth == 0 is true of the residue 0 only.
RECURSIVE tokens_end_loop(_, _, _, _)
tokens_end_loop(toks, begin, pos, depth) ==
    IF depth = 0 /\ pos # begin THEN pos
    ELSE IF pos >= Len(toks) THEN InvalidSchema
    ELSE LET token == toks[pos + 1]
             pos1 == pos + 1
         IN  IF token.kind \in {"Map", "List", "Optional"}
             THEN tokens_end_loop(toks, begin, pos1, depth)
             ELSE IF token.kind \in {"ObjectBegin", "TupleBegin", "VariantBegin", "BinaryBegin"}
             THEN tokens_end_loop(toks, begin, pos1, depth + 1)
             ELSE LET d == IF token.kind \in {"ObjectEnd", "TupleEnd", "VariantEnd", "BinaryEnd"}
                           THEN depth - 1 ELSE depth
                  IN  IF d = 0 THEN pos1
                      ELSE tokens_end_loop(toks, begin, pos1, d)

get_tokens_end(toks, begin) == tokens_end_loop(toks, begin, begin, 0)

\* ------------------------------------------------------------------------
\* Visitable types, their values, and what the packers make of them:
\* the Definer (schema_of), the BinaryWriter (write_binary) and the calls a
\* Writer receives (write_object sends them to an ObjectWriter).
\* ------------------------------------------------------------------------

TI32 == [t |-> "I32"]
TBool == [t |-> "Bool"]
TString == [t |-> "String"]
TOptional(T) == [t |-> "Optional", of |-> T]
TList(T) == [t |-> "List", of |-> T]
TMap(T) == [t |-> "Map", of |-> T]
TObject(fields) == [t |-> "Object", fields |-> fields]
TTuple(elems) == [t |-> "Tuple", elems |-> elems]
TVariant(arms) == [t |-> "Variant", arms |-> arms]
Field(key, T) == [key |-> key, ty |-> T]

TCircle == TObject(<<Field("radius", TI32)>>)
TRect == TObject(<<Field("w", TI32), Field("h", TI32)>>)
TShape == TVariant(<<Field("circle", TCircle), Field("rect", TRect)>>)

TypeNames == {"i32", "record", "optional", "shape", "list", "map", "tuple", "entity"}

TypeOf(name) ==
    CASE name = "i32" -> TI32
      [] name = "record" -> TObject(<<Field("i32", TI32), Field("name", TString),
                                      Field("enabled", TBool)>>)
      [] name = "optional" -> TOptional(TI32)
      [] name = "shape" -> TShape
      [] name = "list" -> TList(TI32)
      [] name = "map" -> TMap(TBool)
      [] name = "tuple" -> TTuple(<<TI32, TBool>>)
      [] name = "entity" -> TObject(<<Field("hitbox", TOptional(TI32)),
                                      Field("items", TList(TBool)),
                                      Field("enabled", TBool)>>)

IntValues == {5, 7}
StringValues == {"player"}
KeyNames == <<"a", "b", "c", "d">>

RECURSIVE SeqProduct(_)
SeqProduct(sets) ==
    IF sets = <<>> THEN {<<>>}
    ELSE {<<h>> \o t : h \in Head(sets), t \in SeqProduct(Tail(sets))}

RECURSIVE Flatten(_)
Flatten(seqs) == IF seqs = <<>> THEN <<>> ELSE Head(seqs) \o Flatten(Tail(seqs))

\* Values: I32 an integer, Bool a boolean, String a string, Optional <<>> or
\* <<v>>, List a sequence, Map a sequence of <<key, v>>, Object and Tuple the
\* sequence of their members, Variant <<arm index, v>>.
RECURSIVE Values(_)
Values(T) ==
    CASE T.t = "I32" -> IntValues
      [] T.t = "Bool" -> BOOLEAN
      [] T.t = "String" -> StringValues
      [] T.t = "Optional" -> {<<>>} \cup {<<v>> : v \in Values(T.of)}
      [] T.t = "List" -> UNION {[1..n -> Values(T.of)] : n \in 0..MaxLen}
      [] T.t = "Map" ->
            UNION {{[i \in 1..n |-> <<KeyNames[i], f[i]>>] : f \in [1..n -> Values(T.of)]}
                   : n \in 0..MaxLen}
      [] T.t = "Object" -> SeqProduct([i \in 1..Len(T.fields) |-> Values(T.fields[i].ty)])
      [] T.t = "Tuple" -> SeqProduct([i \in 1..Len(T.elems) |-> Values(T.elems[i])])
      [] T.t = "Variant" ->
            UNION {{<<i, v>> : v \in Values(T.arms[i].ty)} : i \in 1..Len(T.arms)}

\* The token stream the Definer records for a type.
RECURSIVE schema_of(_)
schema_of(T) ==
    CASE T.t \in {"I32", "Bool", "String"} -> <<Tok(T.t)>>
      [] T.t \in {"Optional", "List", "Map"} -> <<Tok(T.t)>> \o schema_of(T.of)
      [] T.t = "Object" ->
            <<Tok("ObjectBegin")>>
            \o Flatten([i \in 1..Len(T.fields) |->
                    <<TokStr("ObjectNext", T.fields[i].key)>> \o schema_of(T.fields[i].ty)])
            \o <<Tok("ObjectEnd")>>
      [] T.t = "Tuple" ->
            <<Tok("TupleBegin")>>
            \o Flatten([i \in 1..Len(T.elems) |-> <<Tok("TupleNext")>> \o schema_of(T.elems[i])])
            \o <<Tok("TupleEnd")>>
      [] T.t = "Variant" ->
            <<TokLabels("VariantBegin", [i \in 1..Len(T.arms) |-> T.arms[i].key])>>
            \o Flatten([i \in 1..Len(T.arms) |->
                    <<TokStr("VariantNext", T.arms[i].key)>> \o schema_of(T.arms[i].ty)])
            \o <<Tok("VariantEnd")>>

\* Little-endian bytes of a non-negative integer, n bytes wide.
RECURSIVE LittleEndian(_, _)
LittleEndian(v, n) ==
    IF n = 0 THEN <<>> ELSE <<v % 256>> \o LittleEndian(v \div 256, n - 1)

\* Every count at or above Huge stands for "more than any vector of the model
\* holds": the value of an 8-byte count does not fit the checker's integers,
\* and all the code does with one is compare it with a length.
Huge == 2^20

\* The value of little-endian bytes (Horner, from the high byte down).
RECURSIVE FromLittleEndian(_)
FromLittleEndian(bs) ==
    IF bs = <<>> THEN 0
    ELSE LET high == FromLittleEndian(Tail(bs))
         IN  IF high >= Huge \div 256 THEN Huge ELSE Head(bs) + 256 * high

KnownStrings == {"", "a", "b", "c", "d", "player"}

StrBytes(s) ==
    CASE s = "" -> <<>>
      [] s = "a" -> <<97>>
      [] s = "b" -> <<98>>
      [] s = "c" -> <<99>>
      [] s = "d" -> <<100>>
      [] s = "player" -> <<112, 108, 97, 121, 101, 114>>

BytesStr(bs) ==
    IF \E s \in KnownStrings : StrBytes(s) = bs
    THEN CHOOSE s \in KnownStrings : StrBytes(s) = bs
    ELSE "?"

\* String: U64 byte count, then the raw bytes.
StringBytes(s) == LittleEndian(Len(StrBytes(s)), 8) \o StrBytes(s)

\* The bytes the BinaryWriter produces for a value.
RECURSIVE write_binary(_, _)
write_binary(T, v) ==
    CASE T.t = "I32" -> LittleEndian(v, 4)
      [] T.t = "Bool" -> <<IF v THEN 1 ELSE 0>>
      [] T.t = "String" -> StringBytes(v)
      [] T.t = "Optional" ->
            IF v = <<>> THEN <<0>> ELSE <<1>> \o write_binary(T.of, v[1])
      [] T.t = "List" ->
            Flatten([i \in 1..Len(v) |-> <<1>> \o write_binary(T.of, v[i])]) \o <<0>>
      [] T.t = "Map" ->
            Flatten([i \in 1..Len(v) |->
                    <<1>> \o StringBytes(v[i][1]) \o write_binary(T.of, v[i][2])]) \o <<0>>
      [] T.t = "Object" ->
            Flatten([i \in 1..Len(v) |-> write_binary(T.fields[i].ty, v[i])])
      [] T.t = "Tuple" ->
            Flatten([i \in 1..Len(v) |-> write_binary(T.elems[i], v[i])])
      [] T.t = "Variant" ->
            LittleEndian(v[1] - 1, 4) \o write_binary(T.arms[v[1]].ty, v[2])

\* One call on a Writer or Reader: the operation, its string argument (key,
\* label), its number (value, flag) and its bytes (binary payload).
Call(op, s, n) == [op |-> op, s |-> s, n |-> n, bytes |-> <<>>]
CallBytes(op, n, bs) == [op |-> op, s |-> "", n |-> n, bytes |-> bs]

\* The calls a Writer receives when a value is visited.
RECURSIVE write_calls(_, _)
write_calls(T, v) ==
    CASE T.t = "I32" -> <<Call("i32", "", v)>>
      [] T.t = "Bool" -> <<Call("boolean", "", IF v THEN 1 ELSE 0)>>
      [] T.t = "String" -> <<Call("string", v, 0)>>
      [] T.t = "Optional" ->
            IF v = <<>> THEN <<Call("optional", "", 0)>>
            ELSE <<Call("optional", "", 1)>> \o write_calls(T.of, v[1])
      [] T.t = "List" ->
            <<Call("list_begin", "", 0)>>
            \o Flatten([i \in 1..Len(v) |->
                    <<Call("list_next", "", 0)>> \o write_calls(T.of, v[i])])
            \o <<Call("list_end", "", 0)>>
      [] T.t = "Map" ->
            <<Call("map_begin", "", 0)>>
            \o Flatten([i \in 1..Len(v) |->
                    <<Call("map_next", v[i][1], 0)>> \o write_calls(T.of, v[i][2])])
            \o <<Call("map_end", "", 0)>>
      [] T.t = "Object" ->
            <<Call("object_begin", "", 0)>>
            \o Flatten([i \in 1..Len(v) |->
                    <<Call("object_next", T.fields[i].key, 0)>>
                    \o write_calls(T.fields[i].ty, v[i])])
            \o <<Call("object_end", "", 0)>>
      [] T.t = "Tuple" ->
            <<Call("tuple_begin", "", 0)>>
            \o Flatten([i \in 1..Len(v) |->
                    <<Call("tuple_next", "", 0)>> \o write_calls(T.elems[i], v[i])])
            \o <<Call("tuple_end", "", 0)>>
      [] T.t = "Variant" ->
            <<Call("variant_begin", T.arms[v[1]].key, 0)>>
            \o write_calls(T.arms[v[1]].ty, v[2])
            \o <<Call("variant_end", "", 0)>>

\* ------------------------------------------------------------------------
\* Object values as trees, and the ObjectWriter that builds one from the
\* calls it receives.
\* ------------------------------------------------------------------------

EmptyObject == [t |-> "empty"]
NullV == [t |-> "null"]
IntV(i) == [t |-> "int", i |-> i]
BoolV(b) == [t |-> "bool", b |-> b]
StrV(s) == [t |-> "str", s |-> s]
BinaryV(size, bs) == [t |-> "binary", size |-> size, bytes |-> bs]
ContainerV(kind, items) == [t |-> kind, items |-> items]
Entry(key, val) == [key |-> key, val |-> val]

\* ObjectWriter: the open containers (innermost last), the pending key and
\* the root value.
ObjectWriterInit == [stack |-> <<>>, pk |-> "", root |-> EmptyObject]

\* A value arrives: insert(key, value) on a map cursor, append(value) on a
\* list cursor, the root value when no container is open.
ObjectWriterPut(w, val) ==
    IF w.stack = <<>> THEN [w EXCEPT !.root = val, !.pk = ""]
    ELSE LET n == Len(w.stack)
             key == IF w.stack[n].kind = "map" THEN w.pk ELSE ""
         IN  [w EXCEPT !.stack[n].items = Append(@, Entry(key, val)), !.pk = ""]

ObjectWriterOpen(w, kind) ==
    [w EXCEPT !.stack = Append(@, [kind |-> kind, key |-> w.pk, items |-> <<>>]),
              !.pk = ""]

ObjectWriterClose(w) ==
    IF w.stack = <<>> THEN w
    ELSE LET n == Len(w.stack)
             top == w.stack[n]
         IN  ObjectWriterPut([w EXCEPT !.stack = SubSeq(@, 1, n - 1), !.pk = top.key],
                             ContainerV(top.kind, top.items))

ObjectWriterCall(w, c) ==
    CASE c.op \in {"i32", "i64", "u32", "u64"} -> ObjectWriterPut(w, IntV(c.n))
      [] c.op = "boolean" -> ObjectWriterPut(w, BoolV(c.n # 0))
      [] c.op = "string" -> ObjectWriterPut(w, StrV(c.s))
      [] c.op = "binary" -> ObjectWriterPut(w, BinaryV(c.n, c.bytes))
      [] c.op = "optional" -> IF c.n = 0 THEN ObjectWriterPut(w, NullV) ELSE w
      [] c.op \in {"object_begin", "map_begin"} -> ObjectWriterOpen(w, "map")
      [] c.op \in {"tuple_begin", "list_begin"} -> ObjectWriterOpen(w, "list")
      [] c.op \in {"object_end", "map_end", "tuple_end", "list_end"} -> ObjectWriterClose(w)
      [] c.op \in {"object_next", "map_next"} -> [w EXCEPT !.pk = c.s]
      [] OTHER -> w

RECURSIVE ObjectWriterRun(_, _)
ObjectWriterRun(w, calls) ==
    IF calls = <<>> THEN w
    ELSE ObjectWriterRun(ObjectWriterCall(w, Head(calls)), Tail(calls))

\* The tree the caller's Object handle shows: containers still open when the
\* calls stop are part of the tree with what they hold so far.
RECURSIVE ObjectWriterTree(_)
ObjectWriterTree(w) ==
    IF w.stack = <<>> THEN w.root ELSE ObjectWriterTree(ObjectWriterClose(w))

ObjectOf(calls) == ObjectWriterTree(ObjectWriterRun(ObjectWriterInit, calls))

write_object(T, v) == ObjectOf(write_calls(T, v))

\* ------------------------------------------------------------------------
\* BinaryReader: the offset into the bytes, the failure flag, and what
\* variant_begin and binary_size remember for variant_match and binary_data.
\* ------------------------------------------------------------------------

BinaryReaderInit == [pos |-> 0, failed |-> FALSE, arm |-> 0, labels |-> <<>>, bsize |-> 0]

\* n raw bytes.  A failed reader does nothing and yields zeros; running out
\* of bytes marks the reader failed.
ReadBytes(d, r, n) ==
    IF r.failed THEN [r |-> r, bs |-> <<>>]
    ELSE IF r.pos + n > Len(d) THEN [r |-> [r EXCEPT !.failed = TRUE], bs |-> <<>>]
    ELSE [r |-> [r EXCEPT !.pos = @ + n], bs |-> SubSeq(d, r.pos + 1, r.pos + n)]

ReadNumber(d, r, n) ==
    LET rd == ReadBytes(d, r, n) IN [r |-> rd.r, v |-> FromLittleEndian(rd.bs)]

\* Optional: one byte presence flag.
reader_optional(d, r) ==
    LET rd == ReadNumber(d, r, 1) IN [r |-> rd.r, v |-> rd.v # 0]

\* List: a continuation byte before each element.
reader_list_next(d, r) ==
    LET rd == ReadNumber(d, r, 1) IN [r |-> rd.r, v |-> rd.v # 0]

\* Map: the continuation byte, then the entry's string key.
reader_map_next(d, r) ==
    LET flag == ReadNumber(d, r, 1)
        len == ReadNumber(d, flag.r, 8)
        bytes == ReadBytes(d, len.r, len.v)
    IN  IF flag.v = 0 THEN [r |-> flag.r, v |-> FALSE, key |-> ""]
        ELSE [r |-> bytes.r, v |-> TRUE, key |-> BytesStr(bytes.bs)]

\* Variant: U32 index of the chosen arm.
reader_variant_begin(d, r, labels) ==
    LET rd == ReadNumber(d, r, 4) IN [rd.r EXCEPT !.arm = rd.v, !.labels = labels]

reader_variant_match(r, label) ==
    ~r.failed /\ r.arm < Len(r.labels) /\ r.labels[r.arm + 1] = label

\* Binary: U64 count (bytes for stride 0, elements otherwise).
reader_binary_size(d, r, stride) ==
    LET rd == ReadNumber(d, r, 8)
        size == IF stride = 0 THEN rd.v
                ELSE IF rd.v >= Huge THEN Huge ELSE rd.v * stride
    IN  [r |-> [rd.r EXCEPT !.bsize = size], v |-> size]

reader_binary_data(d, r) == ReadBytes(d, r, r.bsize)

\* ------------------------------------------------------------------------
\* load_binary: the loop of binary_schema.cpp, one action for the loop head
\* (exit test and the frame on top of the stack) and one per group of tokens
\* in the dispatch below it.
\* ------------------------------------------------------------------------

State(type, value_tokens_begin, value_tokens_end) ==
    [type |-> type, value_tokens_begin |-> value_tokens_begin,
     value_tokens_end |-> value_tokens_end, done |-> FALSE]

Top(stack) == stack[Len(stack)]
Pop(stack) == SubSeq(stack, 1, Len(stack) - 1)
Flag(b) == IF b THEN 1 ELSE 0

\* Schemas given as tokens rather than made from a type.
RawSchemas ==
    { <<Tok("ObjectBegin"), TokStr("ObjectNext", "d"), TokSize("Binary", 0),
        TokStr("ObjectNext", "e"), Tok("Bool"), Tok("ObjectEnd")>>,
      <<Tok("TupleBegin"), Tok("TupleNext"), TokSize("Binary", 4), Tok("I32"),
        Tok("TupleEnd")>>,
      <<TokSize("Binary", 0)>>,
      <<Tok("ObjectEnd"), Tok("I32")>>,
      <<Tok("ObjectBegin"), Tok("ObjectEnd"), Tok("TupleEnd"), Tok("TupleEnd")>>,
      <<TokLabels("VariantBegin", <<"a">>)>>,
      <<TokLabels("VariantBegin", <<>>), Tok("VariantEnd")>>,
      <<TokLabels("VariantBegin", <<"a">>), Tok("I32"), Tok("VariantEnd")>>,
      <<TokLabels("VariantBegin", <<"a">>), TokStr("VariantNext", "a")>>,
      <<TokLabels("VariantBegin", <<"a">>), TokStr("VariantNext", "a"), Tok("I32"),
        TokStr("VariantNext", "a"), Tok("I32"), Tok("VariantEnd")>>,
      <<Tok("List")>>,
      <<Tok("List"), Tok("List"), Tok("I32")>>,
      <<Tok("List"), Tok("ObjectBegin"), Tok("ObjectEnd")>>,
      <<Tok("Optional"), Tok("I32"), Tok("I32")>>,
      <<Tok("Map"), Tok("TupleBegin"), Tok("TupleEnd"), Tok("Bool")>> }

RawData ==
    { <<>>, <<0>>, <<1>>, <<1, 0>>, <<1, 1, 0>>,
      <<0, 0, 0, 0>>,
      <<2, 0, 0, 0, 0, 0, 0, 0, 9, 8>>,
      <<2, 0, 0, 0, 0, 0, 0, 0, 9>>,
      <<1, 1, 0, 0, 0, 0, 0, 0, 0, 97, 0>> }

LoadStart(name, bytes, e, toks, d) ==
    /\ in_type = name
    /\ in_bytes = bytes
    /\ expect = e
    /\ tokens = toks
    /\ data = d
    /\ token_pos = 0
    /\ states = <<State("None", 0, 0)>>
    /\ reader = BinaryReaderInit
    /\ rcalls = <<>>
    /\ wcalls = <<>>
    /\ pc = "head"
    /\ exc = ""
    /\ steps = 0
    /\ heads = {}

\* The inputs: the bytes of a value of a visitable type under that type's
\* schema, whole or cut short, and raw schemas over raw bytes.
LoadInit ==
    \/ \E name \in TypeNames :
         \E v \in Values(TypeOf(name)) :
           LET bytes == write_binary(TypeOf(name), v)
           IN  \E cut \in 0..Len(bytes) :
                 LoadStart(name, bytes, write_calls(TypeOf(name), v),
                           schema_of(TypeOf(name)), SubSeq(bytes, 1, cut))
    \/ \E toks \in RawSchemas : \E d \in RawData : LoadStart("", d, <<>>, toks, d)

Throw(message) ==
    /\ pc' = "threw"
    /\ exc' = message

\* What the rest of the run depends on at the loop head: the loop body reads
\* and writes token_pos, the frame stack and the reader, and nothing else
\* that changes.
Configuration == [token_pos |-> token_pos, states |-> states, reader |-> reader]

\* while (true) { if (token_pos == schema.tokens.size()) break; ... } return object;
LoopExit ==
    /\ pc = "head"
    /\ token_pos = Len(tokens)
    /\ pc' = "returned"
    /\ UNCHANGED <<inputVars, token_pos, states, reader,
                   rcalls, wcalls, exc, steps>>
    /\ UNCHANGED heads
    /\ UNCHANGED notLoad

\* states.top() on an empty stack is undefined.
HeadEmptyStack ==
    /\ pc = "head"
    /\ token_pos # Len(tokens)
    /\ steps < MaxSteps
    /\ states = <<>>
    /\ pc' = "ub"
    /\ steps' = steps + 1
    /\ UNCHANGED <<inputVars, token_pos, states, reader,
                   rcalls, wcalls, exc>>
    /\ heads' = heads \cup {Configuration}
    /\ UNCHANGED notLoad

HeadMap ==
    /\ pc = "head"
    /\ token_pos # Len(tokens)
    /\ steps < MaxSteps
    /\ states # <<>>
    /\ Top(states).type = "Map"
    /\ steps' = steps + 1
    /\ LET state == Top(states)
           rd == reader_map_next(data, reader)
       IN  /\ reader' = rd.r
           /\ rcalls' = Append(rcalls, Call("map_next", rd.key, Flag(rd.v)))
           /\ IF ~rd.v
              THEN /\ wcalls' = Append(wcalls, Call("map_end", "", 0))
                   /\ token_pos' = state.value_tokens_end
                   /\ states' = Pop(states)
                   /\ pc' = "head"
              ELSE /\ wcalls' = Append(wcalls, Call("map_next", rd.key, 0))
                   /\ token_pos' = state.value_tokens_begin
                   /\ states' = states
                   /\ pc' = "dispatch"
    /\ UNCHANGED <<inputVars, exc>>
    /\ heads' = heads \cup {Configuration}
    /\ UNCHANGED notLoad

HeadList ==
    /\ pc = "head"
    /\ token_pos # Len(tokens)
    /\ steps < MaxSteps
    /\ states # <<>>
    /\ Top(states).type = "List"
    /\ steps' = steps + 1
    /\ LET state == Top(states)
           rd == reader_list_next(data, reader)
       IN  /\ reader' = rd.r
           /\ rcalls' = Append(rcalls, Call("list_next", "", Flag(rd.v)))
           /\ IF ~rd.v
              THEN /\ wcalls' = Append(wcalls, Call("list_end", "", 0))
                   /\ token_pos' = state.value_tokens_end
                   /\ states' = Pop(states)
                   /\ pc' = "head"
              ELSE /\ wcalls' = Append(wcalls, Call("list_next", "", 0))
                   /\ token_pos' = state.value_tokens_begin
                   /\ states' = states
                   /\ pc' = "dispatch"
    /\ UNCHANGED <<inputVars, exc>>
    /\ heads' = heads \cup {Configuration}
    /\ UNCHANGED notLoad

\* bool has_value = false; if (!state.done) { has_value = reader.optional();
\* writer.optional(has_value); } if (has_value) { skip to value_tokens_end, pop }
HeadOptional ==
    /\ pc = "head"
    /\ token_pos # Len(tokens)
    /\ steps < MaxSteps
    /\ states # <<>>
    /\ Top(states).type = "Optional"
    /\ steps' = steps + 1
    /\ LET state == Top(states)
           rd == reader_optional(data, reader)
           has_value == IF ~state.done THEN rd.v ELSE FALSE
       IN  /\ IF ~state.done
              THEN /\ reader' = rd.r
                   /\ rcalls' = Append(rcalls, Call("optional", "", Flag(rd.v)))
                   /\ wcalls' = Append(wcalls, Call("optional", "", Flag(has_value)))
              ELSE UNCHANGED <<reader, rcalls, wcalls>>
           /\ IF has_value
              THEN /\ token_pos' = state.value_tokens_end
                   /\ states' = Pop(states)
                   /\ pc' = "head"
              ELSE /\ token_pos' = state.value_tokens_begin
                   /\ states' = states
                   /\ pc' = "dispatch"
    /\ UNCHANGED <<inputVars, exc>>
    /\ heads' = heads \cup {Configuration}
    /\ UNCHANGED notLoad

\* The remaining frames.  None: straight to the token.  Variant and Binary:
\* close on the second visit, mark done on the first.
HeadOther ==
    /\ pc = "head"
    /\ token_pos # Len(tokens)
    /\ steps < MaxSteps
    /\ states # <<>>
    /\ Top(states).type \notin {"Map", "List", "Optional"}
    /\ steps' = steps + 1
    /\ LET state == Top(states)
       IN  IF state.type = "None"
           THEN /\ pc' = "dispatch"
                /\ UNCHANGED <<token_pos, states, rcalls, wcalls>>
           ELSE IF state.done
           THEN /\ IF state.type = "Variant"
                   THEN /\ rcalls' = Append(rcalls, Call("variant_end", "", 0))
                        /\ wcalls' = Append(wcalls, Call("variant_end", "", 0))
                   ELSE UNCHANGED <<rcalls, wcalls>>
                /\ token_pos' = state.value_tokens_end
                /\ states' = Pop(states)
                /\ pc' = "head"
           ELSE /\ states' = [states EXCEPT ![Len(states)].done = TRUE]
                /\ token_pos' = IF state.type = "Variant"
                                THEN state.value_tokens_begin ELSE token_pos
                /\ pc' = "dispatch"
                /\ UNCHANGED <<rcalls, wcalls>>
    /\ UNCHANGED <<inputVars, reader, exc>>
    /\ heads' = heads \cup {Configuration}
    /\ UNCHANGED notLoad

\* const auto& token = schema.tokens[token_pos]; token_pos++;
\* Reading past the end of the vector is undefined.
TokenOutOfRange ==
    /\ pc = "dispatch"
    /\ token_pos >= Len(tokens)
    /\ pc' = "ub"
    /\ UNCHANGED <<inputVars, token_pos, states, reader,
                   rcalls, wcalls, exc, steps>>
    /\ UNCHANGED heads
    /\ UNCHANGED notLoad

Token == tokens[token_pos + 1]

\* ObjectBegin / TupleBegin push a None frame, ObjectEnd / TupleEnd pop;
\* each is forwarded to the reader and the writer.  Popping an empty stack
\* is undefined.
DispatchBeginEnd ==
    /\ pc = "dispatch"
    /\ token_pos < Len(tokens)
    /\ Token.kind \in {"ObjectBegin", "ObjectEnd", "TupleBegin", "TupleEnd"}
    /\ token_pos' = token_pos + 1
    /\ LET op == CASE Token.kind = "ObjectBegin" -> "object_begin"
                   [] Token.kind = "ObjectEnd" -> "object_end"
                   [] Token.kind = "TupleBegin" -> "tuple_begin"
                   [] Token.kind = "TupleEnd" -> "tuple_end"
       IN  IF Token.kind \in {"ObjectBegin", "TupleBegin"}
           THEN /\ states' = Append(states, State("None", 0, 0))
                /\ rcalls' = Append(rcalls, Call(op, "", 0))
                /\ wcalls' = Append(wcalls, Call(op, "", 0))
                /\ pc' = "head"
           ELSE IF states = <<>>
           THEN /\ pc' = "ub"
                /\ UNCHANGED <<states, rcalls, wcalls>>
           ELSE /\ states' = Pop(states)
                /\ rcalls' = Append(rcalls, Call(op, "", 0))
                /\ wcalls' = Append(wcalls, Call(op, "", 0))
                /\ pc' = "head"
    /\ UNCHANGED <<inputVars, reader, exc, steps>>
    /\ UNCHANGED heads
    /\ UNCHANGED notLoad

\* ObjectNext forwards the key, TupleNext steps.
DispatchNext ==
    /\ pc = "dispatch"
    /\ token_pos < Len(tokens)
    /\ Token.kind \in {"ObjectNext", "TupleNext"}
    /\ token_pos' = token_pos + 1
    /\ LET op == IF Token.kind = "ObjectNext" THEN "object_next" ELSE "tuple_next"
       IN  /\ rcalls' = Append(rcalls, Call(op, Token.str, 0))
           /\ wcalls' = Append(wcalls, Call(op, Token.str, 0))
    /\ pc' = "head"
    /\ UNCHANGED <<inputVars, states, reader, exc, steps>>
    /\ UNCHANGED heads
    /\ UNCHANGED notLoad

\* Map / List: begin on both sides and push the frame of the element subtree.
\* Optional: push the frame only.  get_tokens_end may throw.
DispatchPrefix ==
    /\ pc = "dispatch"
    /\ token_pos < Len(tokens)
    /\ Token.kind \in {"Map", "List", "Optional"}
    /\ token_pos' = token_pos + 1
    /\ LET begin == token_pos + 1
           end == get_tokens_end(tokens, begin)
           op == IF Token.kind = "Map" THEN "map_begin" ELSE "list_begin"
       IN  /\ IF Token.kind = "Optional"
              THEN UNCHANGED <<rcalls, wcalls>>
              ELSE /\ rcalls' = Append(rcalls, Call(op, "", 0))
                   /\ wcalls' = Append(wcalls, Call(op, "", 0))
           /\ IF end = InvalidSchema
              THEN /\ Throw("Invalid binary schema")
                   /\ UNCHANGED states
              ELSE /\ states' = Append(states, State(Token.kind, begin, end))
                   /\ pc' = "head"
                   /\ UNCHANGED exc
    /\ UNCHANGED <<inputVars, reader, steps>>
    /\ UNCHANGED heads
    /\ UNCHANGED notLoad

\* The scan for the matching arm.  Its loop body ends in an unconditional
\* throw, so the loop is left in its first pass: by the throw, or by the
\* break at a VariantEnd.
VariantScanBreaks(r, p) ==
    IF p >= Len(tokens) THEN [result |-> "ub", message |-> "", matched |-> FALSE]
    ELSE LET token == tokens[p + 1]
             matched == reader_variant_match(r, token.str)
         IN  IF token.kind = "VariantNext"
             THEN [result |-> "threw", message |-> "Invalid binary schema",
                   matched |-> matched]
             ELSE IF token.kind = "VariantEnd"
             THEN [result |-> "head", message |-> "", matched |-> FALSE]
             ELSE [result |-> "threw", message |-> "Invalid binary schema",
                   matched |-> FALSE]

VariantScan(r, p) ==
    IF p >= Len(tokens) THEN [result |-> "ub", message |-> "", matched |-> FALSE]
    ELSE LET token == tokens[p + 1]
             matched == reader_variant_match(r, token.str)
         IN  IF token.kind = "VariantNext"
             THEN [result |-> "threw", message |-> "Invalid binary schema",
                   matched |-> matched]
             ELSE IF token.kind = "VariantEnd"
             THEN [result |-> "threw", message |-> "No matching variant",
                   matched |-> FALSE]
             ELSE [result |-> "threw", message |-> "Invalid binary schema",
                   matched |-> FALSE]

DispatchVariant ==
    /\ pc = "dispatch"
    /\ token_pos < Len(tokens)
    /\ Token.kind = "VariantBegin"
    /\ LET r1 == reader_variant_begin(data, reader, Token.labels)
           p == token_pos + 1
           scan == VariantScan(r1, p)
           queried == p < Len(tokens) /\ tokens[p + 1].kind = "VariantNext"
           rc1 == Append(rcalls, Call("variant_begin", "", r1.arm))
       IN  /\ reader' = r1
           /\ rcalls' = IF queried
                        THEN Append(rc1, Call("variant_match", tokens[p + 1].str,
                                              Flag(scan.matched)))
                        ELSE rc1
           /\ wcalls' = IF scan.matched
                        THEN Append(wcalls, Call("variant_begin", tokens[p + 1].str, 0))
                        ELSE wcalls
           /\ token_pos' = IF p < Len(tokens) THEN p + 1 ELSE p
           /\ pc' = scan.result
           /\ exc' = scan.message
    /\ UNCHANGED <<inputVars, states, steps>>
    /\ UNCHANGED heads
    /\ UNCHANGED notLoad

\* std::size_t size = reader.binary_size(stride); token_pos++;
\* stride 0: the bytes go to the writer; otherwise nothing is read or written.
\* When the reader fails, temp keeps its size zero bytes: the calls then carry
\* the size and no bytes.
DispatchBinary ==
    /\ pc = "dispatch"
    /\ token_pos < Len(tokens)
    /\ Token.kind = "Binary"
    /\ token_pos' = token_pos + 2
    /\ LET size == reader_binary_size(data, reader, Token.size)
           bytes == reader_binary_data(data, size.r)
           payload == bytes.bs
           rc1 == Append(rcalls, Call("binary_size", "", size.v))
       IN  IF Token.size = 0
           THEN /\ reader' = bytes.r
                /\ rcalls' = Append(rc1, CallBytes("binary_data", size.v, payload))
                /\ wcalls' = Append(wcalls, CallBytes("binary", size.v, payload))
           ELSE /\ reader' = size.r
                /\ rcalls' = rc1
                /\ wcalls' = wcalls
    /\ pc' = "head"
    /\ UNCHANGED <<inputVars, states, exc, steps>>
    /\ UNCHANGED heads
    /\ UNCHANGED notLoad

\* Every other token (the primitives among them) matches no branch of the
\* dispatch: nothing is read and nothing is written.
DispatchOther ==
    /\ pc = "dispatch"
    /\ token_pos < Len(tokens)
    /\ Token.kind \notin {"ObjectBegin", "ObjectEnd", "ObjectNext", "TupleBegin",
                          "TupleEnd", "TupleNext", "Map", "List", "Optional",
                          "VariantBegin", "Binary"}
    /\ token_pos' = token_pos + 1
    /\ pc' = "head"
    /\ UNCHANGED <<inputVars, states, reader, rcalls, wcalls,
                   exc, steps>>
    /\ UNCHANGED heads
    /\ UNCHANGED notLoad

LoadNext ==
    \/ LoopExit
    \/ HeadEmptyStack
    \/ HeadMap
    \/ HeadList
    \/ HeadOptional
    \/ HeadOther
    \/ TokenOutOfRange
    \/ DispatchBeginEnd
    \/ DispatchNext
    \/ DispatchPrefix
    \/ DispatchVariant
    \/ DispatchBinary
    \/ DispatchOther

\* ------------------------------------------------------------------------
\* Token: the schema alphabet, its label table, equality, and a Schema
\* written and read back token by token as a labelled variant.
\* ------------------------------------------------------------------------

\* The alternatives of Token, in order: index() of a token is its position.
TokenKinds ==
    <<"I32", "I64", "U32", "U64", "F32", "F64", "String", "Bool",
      "Optional", "Enumerate", "VariantBegin", "VariantEnd", "VariantNext",
      "BinaryData", "TrivialBegin", "TrivialEnd",
      "ObjectBegin", "ObjectEnd", "ObjectNext",
      "TupleBegin", "TupleEnd", "TupleNext", "List", "Map">>

\* variant_labels<Token>::value
TokenLabels ==
    <<"i32", "i64", "u32", "u64", "f32", "f64",
      "string", "boolean",
      "optional", "enumerate",
      "variant_begin", "variant_end", "variant_next",
      "binary_data", "trivial_begin", "trivial_end",
      "object_begin", "object_end", "object_next",
      "tuple_begin", "tuple_end", "tuple_next",
      "list">>

\* std::variant::index(), 0-based.
TokenIndex(token) == (CHOOSE i \in 1..Len(TokenKinds) : TokenKinds[i] = token.kind) - 1

TokenEqNoTrivialEnd(lhs, rhs) ==
    IF TokenIndex(lhs) # TokenIndex(rhs) THEN FALSE
    ELSE IF lhs.kind = "Enumerate" THEN lhs.labels = rhs.labels
    ELSE IF lhs.kind = "VariantBegin" THEN lhs.labels = rhs.labels
    ELSE IF lhs.kind = "VariantNext" THEN lhs.str = rhs.str
    ELSE IF lhs.kind = "ObjectNext" THEN lhs.str = rhs.str
    ELSE IF lhs.kind = "TrivialBegin" THEN lhs.size = rhs.size
    ELSE TRUE

\* bool operator==(const Token& lhs, const Token& rhs)
TokenEq(lhs, rhs) ==
    IF TokenIndex(lhs) # TokenIndex(rhs) THEN FALSE
    ELSE IF lhs.kind = "Enumerate" THEN lhs.labels = rhs.labels
    ELSE IF lhs.kind = "VariantBegin" THEN lhs.labels = rhs.labels
    ELSE IF lhs.kind = "VariantNext" THEN lhs.str = rhs.str
    ELSE IF lhs.kind = "ObjectNext" THEN lhs.str = rhs.str
    ELSE IF lhs.kind = "TrivialBegin" THEN lhs.size = rhs.size
    ELSE IF lhs.kind = "TrivialEnd" THEN lhs.size = rhs.size
    ELSE TRUE

PayloadFreeKinds ==
    {TokenKinds[i] : i \in 1..Len(TokenKinds)}
    \ {"Enumerate", "VariantBegin", "VariantNext", "ObjectNext", "TrivialBegin", "TrivialEnd"}

LabelLists == {<<>>, <<"a">>, <<"a", "b">>}

\* The tokens the model draws from: every kind, every payload kind with
\* several payloads.
Tokens ==
    {Tok(k) : k \in PayloadFreeKinds}
    \cup {TokLabels(k, ls) : k \in {"Enumerate", "VariantBegin"}, ls \in LabelLists}
    \cup {TokStr(k, x) : k \in {"VariantNext", "ObjectNext"}, x \in {"a", "b"}}
    \cup {TokSize(k, n) : k \in {"TrivialBegin", "TrivialEnd"}, n \in {4, 8}}

Schemas == UNION {[1..n -> Tokens] : n \in 0..MaxSchemaLen}

\* ------------------------------------------------------------------------
\* Labelled variants (labelled_variant.hpp, common/variant.hpp).  A labelled
\* variant type is its number of alternatives and its label table; a value
\* is the index of its active alternative.
\* ------------------------------------------------------------------------

TokenVariant == [arms |-> Len(TokenKinds), labels |-> TokenLabels]
ShapeVariant == [arms |-> 2, labels |-> <<"circle", "rect">>]

\* What an index past the end of the label table yields.
Undefined == "<undefined>"

variant_to_label_off_by_one(T, index) ==
    IF index + 1 < Len(T.labels) THEN T.labels[index + 2] ELSE Undefined

\* return variant_labels_v<T>()[value.index()];
variant_to_label(T, index) ==
    IF index < Len(T.labels) THEN T.labels[index + 1] ELSE Undefined

\* write: variant_begin(variant_to_label(value), labels), the value of the
\* active alternative, variant_end.
variant_write(T, index) ==
    LET label == variant_to_label(T, index)
    IN  IF label = Undefined THEN [ub |-> TRUE, calls |-> <<>>]
        ELSE [ub |-> FALSE,
              calls |-> <<Call("variant_begin", label, 0), Call("value", "", index),
                          Call("variant_end", "", 0)>>]

\* A Reader as the variant matcher sees it: is_exhaustive() and the labels
\* variant_match answers true for.
VariantReader(exhaustive, matches) == [exhaustive |-> exhaustive, matches |-> matches]

\* match_variant_next<T, Next, Args...>, and its base case when the
\* alternatives are used up.  acc: the alternative assigned to the target
\* (-1: unassigned), the calls made on the reader, error(), and whether the
\* label table was read past its end.
RECURSIVE match_variant_next(_, _, _, _)
match_variant_next(T, rd, index, acc) ==
    IF index = T.arms
    THEN IF ~rd.exhaustive
         THEN [acc EXCEPT !.calls = Append(@, Call("error", "No matching variant", 0)),
                          !.error = TRUE]
         ELSE acc
    ELSE IF index >= Len(T.labels) THEN [acc EXCEPT !.ub = TRUE]
    ELSE LET label == T.labels[index + 1]
             m == label \in rd.matches
             acc1 == [acc EXCEPT !.calls = Append(@, Call("variant_match", label, Flag(m)))]
             acc2 == [acc1 EXCEPT !.calls = Append(@, Call("value", "", index)),
                                  !.arm = index]
         IN  IF m
             THEN IF ~rd.exhaustive THEN acc2
                  ELSE match_variant_next(T, rd, index + 1, acc2)
             ELSE match_variant_next(T, rd, index + 1, acc1)

\* read: variant_begin(labels), the matcher, variant_end.
variant_read(T, rd) ==
    LET r == match_variant_next(T, rd, 0,
                 [arm |-> -1, calls |-> <<Call("variant_begin", "", 0)>>,
                  error |-> FALSE, ub |-> FALSE])
    IN  IF r.ub THEN r ELSE [r EXCEPT !.calls = Append(@, Call("variant_end", "", 0))]

\* ------------------------------------------------------------------------
\* The visit functions of the payload tokens (token.cpp): object_begin,
\* value(name, field), object_end.
\* ------------------------------------------------------------------------

PayloadField(kind) ==
    CASE kind \in {"Enumerate", "VariantBegin"} -> "labels"
      [] kind = "VariantNext" -> "type"
      [] kind = "ObjectNext" -> "key"
      [] kind \in {"TrivialBegin", "TrivialEnd"} -> "size"
      [] OTHER -> ""

StringListCalls(ls) ==
    <<Call("list_begin", "", 0)>>
    \o Flatten([i \in 1..Len(ls) |-> <<Call("list_next", "", 0), Call("string", ls[i], 0)>>])
    \o <<Call("list_end", "", 0)>>

PayloadValueCalls(token) ==
    CASE PayloadField(token.kind) = "labels" -> StringListCalls(token.labels)
      [] PayloadField(token.kind) \in {"type", "key"} -> <<Call("string", token.str, 0)>>
      [] PayloadField(token.kind) = "size" -> <<Call("u64", "", token.size)>>

\* What visit sends to a Writer for a token's alternative.
visit_write(token) ==
    IF PayloadField(token.kind) = "" THEN <<>>
    ELSE <<Call("object_begin", "", 0), Call("object_next", PayloadField(token.kind), 0)>>
         \o PayloadValueCalls(token)
         \o <<Call("object_end", "", 0)>>

\* The strings of a written list of strings.
ReadStringList(calls) ==
    LET n == (Len(calls) - 2) \div 2
    IN  [i \in 1..n |-> calls[2 * i + 1].s]

ReadFailed == [kind |-> "<failed>", labels |-> <<>>, str |-> "", size |-> 0]

\* What visit reads back into a default-constructed alternative of the given
\* kind from what was written: the field under the alternative's own name.
visit_read(kind, calls) ==
    IF PayloadField(kind) = "" THEN (IF calls = <<>> THEN Tok(kind) ELSE ReadFailed)
    ELSE IF \/ Len(calls) < 4
            \/ calls[1].op # "object_begin"
            \/ calls[2] # Call("object_next", PayloadField(kind), 0)
            \/ calls[Len(calls)].op # "object_end"
    THEN ReadFailed
    ELSE LET value == SubSeq(calls, 3, Len(calls) - 1)
         IN  CASE PayloadField(kind) = "labels" ->
                    IF value[1].op = "list_begin"
                    THEN TokLabels(kind, ReadStringList(value)) ELSE ReadFailed
               [] PayloadField(kind) \in {"type", "key"} ->
                    IF value[1].op = "string" THEN TokStr(kind, value[1].s) ELSE ReadFailed
               [] PayloadField(kind) = "size" ->
                    IF value[1].op = "u64" THEN TokSize(kind, value[1].n) ELSE ReadFailed

\* ------------------------------------------------------------------------
\* Token equality applied, and a Schema written and read back.
\* ------------------------------------------------------------------------

TokenInit ==
    /\ tk_pc = "idle"
    /\ tk_lhs = Tok("I32")
    /\ tk_rhs = Tok("I32")
    /\ tk_eq = TRUE
    /\ tk_schema = <<>>
    /\ tk_wire = <<>>
    /\ tk_read = <<>>

Compare ==
    /\ tk_pc = "idle"
    /\ \E lhs \in Tokens, rhs \in Tokens :
         /\ tk_lhs' = lhs
         /\ tk_rhs' = rhs
         /\ tk_eq' = TokenEq(lhs, rhs)
    /\ tk_pc' = "compared"
    /\ UNCHANGED <<tk_schema, tk_wire, tk_read>>
    /\ UNCHANGED notToken

StartSchema ==
    /\ tk_pc = "idle"
    /\ \E schema \in Schemas : tk_schema' = schema
    /\ tk_pc' = "writing"
    /\ UNCHANGED <<tk_lhs, tk_rhs, tk_eq, tk_wire, tk_read>>
    /\ UNCHANGED notToken

WireItem(label, payload) == [label |-> label, payload |-> payload]

\* write(writer, token) for the next token of the schema.
WriteToken ==
    /\ tk_pc = "writing"
    /\ Len(tk_wire) < Len(tk_schema)
    /\ LET token == tk_schema[Len(tk_wire) + 1]
           w == variant_write(TokenVariant, TokenIndex(token))
       IN  /\ ~w.ub
           /\ tk_wire' = Append(tk_wire, WireItem(w.calls[1].s, visit_write(token)))
    /\ UNCHANGED <<tk_pc, tk_lhs, tk_rhs, tk_eq, tk_schema, tk_read>>
    /\ UNCHANGED notToken

\* The label table read past its end by variant_to_label: the program stops,
\* or whatever lies there is written as the label.
WriteTokenUndefined ==
    /\ tk_pc = "writing"
    /\ Len(tk_wire) < Len(tk_schema)
    /\ LET token == tk_schema[Len(tk_wire) + 1]
           w == variant_write(TokenVariant, TokenIndex(token))
       IN  /\ w.ub
           /\ \/ /\ tk_pc' = "ub"
                 /\ UNCHANGED tk_wire
              \/ /\ tk_wire' = Append(tk_wire, WireItem(Undefined, visit_write(token)))
                 /\ UNCHANGED tk_pc
    /\ UNCHANGED <<tk_lhs, tk_rhs, tk_eq, tk_schema, tk_read>>
    /\ UNCHANGED notToken

WriteDone ==
    /\ tk_pc = "writing"
    /\ Len(tk_wire) = Len(tk_schema)
    /\ tk_pc' = "reading"
    /\ UNCHANGED <<tk_lhs, tk_rhs, tk_eq, tk_schema, tk_wire, tk_read>>
    /\ UNCHANGED notToken

\* read(reader, token) for the next written token: the reader matches the
\* label that was written and stops at the first match.
ReadToken ==
    /\ tk_pc = "reading"
    /\ Len(tk_read) < Len(tk_wire)
    /\ LET item == tk_wire[Len(tk_read) + 1]
           r == variant_read(TokenVariant, VariantReader(FALSE, {item.label}))
           token == visit_read(TokenKinds[r.arm + 1], item.payload)
       IN  /\ ~r.ub
           /\ IF r.error \/ token = ReadFailed
              THEN /\ tk_pc' = "failed"
                   /\ UNCHANGED tk_read
              ELSE /\ tk_read' = Append(tk_read, token)
                   /\ UNCHANGED tk_pc
    /\ UNCHANGED <<tk_lhs, tk_rhs, tk_eq, tk_schema, tk_wire>>
    /\ UNCHANGED notToken

\* The label table read past its end by the matcher: the program stops, or
\* the label found there matches (the last alternative is read), or it does
\* not (error).
ReadTokenUndefined ==
    /\ tk_pc = "reading"
    /\ Len(tk_read) < Len(tk_wire)
    /\ LET item == tk_wire[Len(tk_read) + 1]
           r == variant_read(TokenVariant, VariantReader(FALSE, {item.label}))
           token == visit_read(TokenKinds[TokenVariant.arms], item.payload)
       IN  /\ r.ub
           /\ \/ /\ tk_pc' = "ub"
                 /\ UNCHANGED tk_read
              \/ /\ tk_pc' = "failed"
                 /\ UNCHANGED tk_read
              \/ /\ token # ReadFailed
                 /\ tk_read' = Append(tk_read, token)
                 /\ UNCHANGED tk_pc
    /\ UNCHANGED <<tk_lhs, tk_rhs, tk_eq, tk_schema, tk_wire>>
    /\ UNCHANGED notToken

ReadDone ==
    /\ tk_pc = "reading"
    /\ Len(tk_read) = Len(tk_wire)
    /\ tk_pc' = "done"
    /\ UNCHANGED <<tk_lhs, tk_rhs, tk_eq, tk_schema, tk_wire, tk_read>>
    /\ UNCHANGED notToken

TokenNext ==
    \/ Compare
    \/ StartSchema
    \/ WriteToken
    \/ WriteTokenUndefined
    \/ WriteDone
    \/ ReadToken
    \/ ReadTokenUndefined
    \/ ReadDone

\* ------------------------------------------------------------------------
\* A labelled variant value written, then read by a reader that answers
\* variant_match from a set of labels.
\* ------------------------------------------------------------------------

NoResult == [arm |-> -1, calls |-> <<>>, error |-> FALSE, ub |-> FALSE]

VariantIdle ==
    /\ vr_pc = "idle"
    /\ vr_type = ShapeVariant
    /\ vr_arm = 0
    /\ vr_wcalls = <<>>
    /\ vr_reader = VariantReader(FALSE, {})
    /\ vr_result = NoResult

VariantTypes == {ShapeVariant, TokenVariant}

VariantStart ==
    /\ vr_pc = "idle"
    /\ \E T \in VariantTypes : \E arm \in 0..(T.arms - 1) :
         /\ vr_type' = T
         /\ vr_arm' = arm
    /\ vr_pc' = "start"
    /\ UNCHANGED <<vr_wcalls, vr_reader, vr_result>>
    /\ UNCHANGED notVariant

VariantWrite ==
    /\ vr_pc = "start"
    /\ LET w == variant_write(vr_type, vr_arm)
       IN  /\ ~w.ub
           /\ vr_wcalls' = w.calls
    /\ vr_pc' = "written"
    /\ UNCHANGED <<vr_type, vr_arm, vr_reader, vr_result>>
    /\ UNCHANGED notVariant

\* Another thing that may lie past the end of a label table.
Undefined2 == "<undefined'>"

\* variant_to_label reads past the end of the label table: the program
\* stops, or what lies there is passed to variant_begin as the label.
VariantWriteUndefined ==
    /\ vr_pc = "start"
    /\ variant_write(vr_type, vr_arm).ub
    /\ \/ /\ vr_pc' = "ub"
          /\ UNCHANGED vr_wcalls
       \/ /\ vr_pc' = "written"
          /\ vr_wcalls' = <<Call("variant_begin", Undefined, 0), Call("value", "", vr_arm),
                            Call("variant_end", "", 0)>>
    /\ UNCHANGED <<vr_type, vr_arm, vr_reader, vr_result>>
    /\ UNCHANGED notVariant

\* The readers tried: variant_match true exactly for the written label, for
\* no label, for the written and the first label, for every label.
MatchSets ==
    {{vr_wcalls[1].s}, {}, {vr_wcalls[1].s, vr_type.labels[1]},
     {vr_type.labels[i] : i \in 1..Len(vr_type.labels)}}

VariantRead ==
    /\ vr_pc = "written"
    /\ \E exhaustive \in BOOLEAN, matches \in MatchSets :
         LET rd == VariantReader(exhaustive, matches)
             r == variant_read(vr_type, rd)
         IN  /\ ~r.ub
             /\ vr_reader' = rd
             /\ vr_result' = r
    /\ vr_pc' = "read"
    /\ UNCHANGED <<vr_type, vr_arm, vr_wcalls>>
    /\ UNCHANGED notVariant

\* The matcher reads past the end of the label table: the program stops, or
\* the read goes on with what lies there as the label of the alternative.
VariantReadUndefined ==
    /\ vr_pc = "written"
    /\ \E exhaustive \in BOOLEAN, matches \in MatchSets :
         LET rd == VariantReader(exhaustive, matches)
         IN  /\ variant_read(vr_type, rd).ub
             /\ vr_reader' = rd
             /\ \/ /\ vr_pc' = "ub"
                   /\ UNCHANGED vr_result
                \/ /\ vr_pc' = "read"
                   /\ \E past \in {Undefined, Undefined2} :
                        vr_result' =
                            variant_read([vr_type EXCEPT !.labels = Append(@, past)], rd)
    /\ UNCHANGED <<vr_type, vr_arm, vr_wcalls>>
    /\ UNCHANGED notVariant

VariantNext ==
    \/ VariantStart
    \/ VariantWrite
    \/ VariantWriteUndefined
    \/ VariantRead
    \/ VariantReadUndefined

\* ------------------------------------------------------------------------
\* The Object node arena and its handles (object.hpp).  The mutators
\* (insert, append, set, erase, clear, create_node) are declared there and
\* behave as the specification describes them.
\* ------------------------------------------------------------------------

map_t == [t |-> "map"]
list_t == [t |-> "list"]

\* The node values tried, the keys tried and the kinds get and get_if ask for.
NodeValues == {IntV(1), map_t, list_t}
NodeKeys == {"", "a", "b"}
AskedKinds == {"int", "str", "map"}

NodeChildZero(value, key, parent, prev) ==
    [value |-> value, key |-> key, parent |-> parent, child |-> 0, prev |-> prev,
     next |-> -1]

\* Node(value, key, parent, prev): child(-1), next(-1).
Node(value, key, parent, prev) ==
    [value |-> value, key |-> key, parent |-> parent, child |-> -1, prev |-> prev,
     next |-> -1]

\* A handle: whether it shares an arena (state is not null) and its index.
Handle(state, index) == [state |-> state, index |-> index]

operator_bool_state(h) == h.state

\* operator bool: index != -1
operator_bool(h) == h.index # -1

\* The handle refers to a node of the arena that is not on the free stack.
Live(h) ==
    /\ h.state
    /\ h.index \in 0..(Len(ob_nodes) - 1)
    /\ \A k \in 1..Len(ob_free) : ob_free[k] # h.index

\* The indices from `first` along next.
RECURSIVE ChildChain(_, _, _)
ChildChain(nodes, first, fuel) ==
    IF first = -1 \/ fuel = 0 THEN <<>>
    ELSE <<first>> \o ChildChain(nodes, nodes[first + 1].next, fuel - 1)

Children(nodes, p) == ChildChain(nodes, nodes[p + 1].child, Len(nodes))

\* The indices of a subtree, the node first, then its children's subtrees.
RECURSIVE SubtreeOrder(_, _, _)
SubtreeOrder(nodes, i, fuel) ==
    IF fuel = 0 THEN <<i>>
    ELSE LET kids == Children(nodes, i)
         IN  <<i>> \o Flatten([k \in 1..Len(kids) |-> SubtreeOrder(nodes, kids[k], fuel - 1)])

ChildrenOrder(nodes, p) ==
    LET kids == Children(nodes, p)
    IN  Flatten([k \in 1..Len(kids) |-> SubtreeOrder(nodes, kids[k], Len(nodes))])

\* create_node: an index from the free stack when there is one, a new slot
\* at the end of the arena otherwise.
create_node(nodes, free, node) ==
    IF free # <<>>
    THEN [nodes |-> [nodes EXCEPT ![Top(free) + 1] = node], free |-> Pop(free),
          index |-> Top(free)]
    ELSE [nodes |-> Append(nodes, node), free |-> free, index |-> Len(nodes)]

\* A new last child of p.
AddChild(nodes, free, p, key, value) ==
    LET kids == Children(nodes, p)
        last == IF kids = <<>> THEN -1 ELSE kids[Len(kids)]
        c == create_node(nodes, free, Node(value, key, p, last))
    IN  [c EXCEPT !.nodes = IF last = -1 THEN [@ EXCEPT ![p + 1].child = c.index]
                            ELSE [@ EXCEPT ![last + 1].next = c.index]]

\* The children of p freed: their indices go onto the free stack.
FreeChildren(nodes, free, p) ==
    [nodes |-> [nodes EXCEPT ![p + 1].child = -1], free |-> free \o ChildrenOrder(nodes, p)]

\* Node i unlinked from its siblings and parent, its subtree freed.
Unlink(nodes, free, i) ==
    LET n == nodes[i + 1]
        n1 == IF n.prev # -1 THEN [nodes EXCEPT ![n.prev + 1].next = n.next]
              ELSE IF n.parent # -1 THEN [nodes EXCEPT ![n.parent + 1].child = n.next]
              ELSE nodes
        n2 == IF n.next # -1 THEN [n1 EXCEPT ![n.next + 1].prev = n.prev] ELSE n1
    IN  [nodes |-> n2, free |-> free \o SubtreeOrder(nodes, i, Len(nodes))]

Op(name, on, arg) == [name |-> name, on |-> on, arg |-> arg]

ObjectIdle ==
    /\ ob_pc = "idle"
    /\ ob_nodes = <<>>
    /\ ob_free = <<>>
    /\ ob_h = Handle(FALSE, -1)
    /\ ob_op = Op("", -1, "")
    /\ ob_ret = ""
    /\ ob_exc = ""
    /\ ob_count = 0
    /\ ob_empty_key = FALSE

\* Object_(const value_t& root_value)
ObjectConstruct ==
    /\ ob_pc = "idle"
    /\ \E root_value \in NodeValues :
         /\ ob_nodes' = <<Node(root_value, "", -1, -1)>>
         /\ ob_op' = Op("Object_(value)", -1, root_value.t)
    /\ ob_h' = Handle(TRUE, 0)
    /\ ob_pc' = "run"
    /\ UNCHANGED <<ob_free, ob_ret, ob_exc, ob_count>>
    /\ UNCHANGED <<ob_empty_key, notObject>>

\* Object_(): index(-1)
DefaultConstruct ==
    /\ ob_pc = "run"
    /\ ob_h' = Handle(FALSE, -1)
    /\ ob_op' = Op("Object_()", -1, "")
    /\ ob_ret' = ""
    /\ ob_exc' = ""
    /\ UNCHANGED <<ob_pc, ob_nodes, ob_free, ob_count>>
    /\ UNCHANGED <<ob_empty_key, notObject>>

\* root(): Object_(state, 0)
Root ==
    /\ ob_pc = "run"
    /\ ob_h' = Handle(ob_h.state, 0)
    /\ ob_op' = Op("root", ob_h.index, "")
    /\ ob_ret' = ""
    /\ ob_exc' = ""
    /\ UNCHANGED <<ob_pc, ob_nodes, ob_free, ob_count>>
    /\ UNCHANGED <<ob_empty_key, notObject>>

\* prev(), next(), parent(), child(): Object_(state, node().<link>)
Navigate ==
    /\ ob_pc = "run"
    /\ Live(ob_h)
    /\ \E link \in {"prev", "next", "parent", "child"} :
         LET n == ob_nodes[ob_h.index + 1]
             to == CASE link = "prev" -> n.prev
                     [] link = "next" -> n.next
                     [] link = "parent" -> n.parent
                     [] link = "child" -> n.child
         IN  /\ ob_h' = Handle(ob_h.state, to)
             /\ ob_op' = Op(link, ob_h.index, "")
    /\ ob_ret' = ""
    /\ ob_exc' = ""
    /\ UNCHANGED <<ob_pc, ob_nodes, ob_free, ob_count>>
    /\ UNCHANGED <<ob_empty_key, notObject>>

\* node() is state->nodes[index]: with index -1 or a null state, an access
\* that goes through node() is undefined.
NodeUndefined ==
    /\ ob_pc = "run"
    /\ ~ob_h.state \/ ob_h.index = -1
    /\ \E name \in {"prev", "next", "parent", "child", "get", "value", "key"} :
         ob_op' = Op(name, ob_h.index, "")
    /\ ob_pc' = "ub"
    /\ UNCHANGED <<ob_nodes, ob_free, ob_h, ob_ret, ob_exc, ob_count>>
    /\ UNCHANGED <<ob_empty_key, notObject>>

\* get<T>(): std::get<T>(node().value), which throws std::bad_variant_access
\* when the value holds another alternative.
Get ==
    /\ ob_pc = "run"
    /\ Live(ob_h)
    /\ \E T \in AskedKinds :
         LET value == ob_nodes[ob_h.index + 1].value
         IN  /\ ob_op' = Op("get", ob_h.index, T)
             /\ IF value.t = T
                THEN /\ ob_ret' = value
                     /\ ob_exc' = ""
                ELSE /\ ob_ret' = ""
                     /\ ob_exc' = "std::bad_variant_access"
    /\ UNCHANGED <<ob_pc, ob_nodes, ob_free, ob_h, ob_count>>
    /\ UNCHANGED <<ob_empty_key, notObject>>

\* get_if<T>(): nullptr on an empty handle, std::get_if<T>(&node().value)
\* otherwise.
GetIf ==
    /\ ob_pc = "run"
    /\ ~operator_bool(ob_h) \/ Live(ob_h)
    /\ \E T \in AskedKinds :
         /\ ob_op' = Op("get_if", ob_h.index, T)
         /\ ob_ret' = IF ~operator_bool(ob_h) THEN "nullptr"
                      ELSE IF ob_nodes[ob_h.index + 1].value.t = T THEN "pointer"
                      ELSE "nullptr"
    /\ ob_exc' = ""
    /\ UNCHANGED <<ob_pc, ob_nodes, ob_free, ob_h, ob_count>>
    /\ UNCHANGED <<ob_empty_key, notObject>>

\* The arena has room for one more node.
Room == ob_free # <<>> \/ Len(ob_nodes) < MaxNodes

Raise(name, arg, message) ==
    /\ ob_op' = Op(name, ob_h.index, arg)
    /\ ob_ret' = ""
    /\ ob_exc' = message
    /\ UNCHANGED <<ob_nodes, ob_free, ob_h>>

Done(name, arg, r, h) ==
    /\ ob_op' = Op(name, ob_h.index, arg)
    /\ ob_ret' = ""
    /\ ob_exc' = ""
    /\ ob_nodes' = r.nodes
    /\ ob_free' = r.free
    /\ ob_h' = h

\* insert(key, value): on a MAP node a new last child with that key;
\* NotAMap on another node, DuplicateKey when the key is taken.
Insert ==
    /\ ob_pc = "run"
    /\ Live(ob_h)
    /\ ob_count < MaxOps
    /\ Room
    /\ \E key \in NodeKeys, value \in NodeValues :
         LET p == ob_h.index
             kids == Children(ob_nodes, p)
         IN  IF ob_nodes[p + 1].value.t # "map"
             THEN Raise("insert", key, "ObjectException: NotAMap")
             ELSE IF \E k \in 1..Len(kids) : ob_nodes[kids[k] + 1].key = key
             THEN Raise("insert", key, "ObjectException: DuplicateKey")
             ELSE LET r == AddChild(ob_nodes, ob_free, p, key, value)
                  IN  Done("insert", key, r, Handle(TRUE, r.index))
    /\ ob_empty_key' = (ob_empty_key \/ (ob_exc' = "" /\ ob_op'.arg = ""))
    /\ ob_count' = ob_count + 1
    /\ UNCHANGED ob_pc
    /\ UNCHANGED notObject

\* append(value): on a LIST node a new last child with the empty key;
\* NotAList on another node.
ObjectAppend ==
    /\ ob_pc = "run"
    /\ Live(ob_h)
    /\ ob_count < MaxOps
    /\ Room
    /\ \E value \in NodeValues :
         IF ob_nodes[ob_h.index + 1].value.t # "list"
         THEN Raise("append", value.t, "ObjectException: NotAList")
         ELSE LET r == AddChild(ob_nodes, ob_free, ob_h.index, "", value)
              IN  Done("append", value.t, r, Handle(TRUE, r.index))
    /\ ob_count' = ob_count + 1
    /\ UNCHANGED ob_pc
    /\ UNCHANGED <<ob_empty_key, notObject>>

\* set(value): the value replaced in place; the children freed unless the
\* new value is the same container kind as the old.
Set ==
    /\ ob_pc = "run"
    /\ Live(ob_h)
    /\ ob_count < MaxOps
    /\ \E value \in NodeValues :
         LET i == ob_h.index
             old == ob_nodes[i + 1].value
             kept == value.t \in {"map", "list"} /\ value.t = old.t
             r == IF kept THEN [nodes |-> ob_nodes, free |-> ob_free]
                  ELSE FreeChildren(ob_nodes, ob_free, i)
         IN  Done("set", value.t, [r EXCEPT !.nodes[i + 1].value = value], ob_h)
    /\ ob_count' = ob_count + 1
    /\ UNCHANGED ob_pc
    /\ UNCHANGED <<ob_empty_key, notObject>>

\* erase(): the subtree unlinked, its indices pushed onto the free stack.
Erase ==
    /\ ob_pc = "run"
    /\ Live(ob_h)
    /\ ob_count < MaxOps
    /\ Done("erase", "", Unlink(ob_nodes, ob_free, ob_h.index), ob_h)
    /\ ob_count' = ob_count + 1
    /\ UNCHANGED ob_pc
    /\ UNCHANGED <<ob_empty_key, notObject>>

\* clear(): on a MAP or LIST every child erased.
Clear ==
    /\ ob_pc = "run"
    /\ Live(ob_h)
    /\ ob_count < MaxOps
    /\ LET i == ob_h.index
       IN  Done("clear", "",
                IF ob_nodes[i + 1].value.t \in {"map", "list"}
                THEN FreeChildren(ob_nodes, ob_free, i)
                ELSE [nodes |-> ob_nodes, free |-> ob_free],
                ob_h)
    /\ ob_count' = ob_count + 1
    /\ UNCHANGED ob_pc
    /\ UNCHANGED <<ob_empty_key, notObject>>

ObjectNext ==
    \/ ObjectConstruct
    \/ DefaultConstruct
    \/ Root
    \/ Navigate
    \/ NodeUndefined
    \/ Get
    \/ GetIf
    \/ Insert
    \/ ObjectAppend
    \/ Set
    \/ Erase
    \/ Clear

\* ------------------------------------------------------------------------
\* object_merge and object_diff over Object trees, by the rules object.hpp
\* and the specification give for them.
\* ------------------------------------------------------------------------

MapOf(items) == ContainerV("map", items)
ListOf(items) == ContainerV("list", items)

HasKey(m, k) == \E i \in 1..Len(m.items) : m.items[i].key = k

\* The value under a key, NULL when the key is not present.
Lookup(m, k) ==
    IF HasKey(m, k)
    THEN m.items[CHOOSE i \in 1..Len(m.items) : m.items[i].key = k].val
    ELSE NullV

\* The keys that index a list: decimal strings.
IndexKeys == <<"0", "1", "2", "3">>
IsIndexKey(k) == \E i \in 1..Len(IndexKeys) : IndexKeys[i] = k
KeyIndex(k) == (CHOOSE i \in 1..Len(IndexKeys) : IndexKeys[i] = k) - 1
IndexKeyNext(i) == IndexKeys[i + 2]
IndexKey(i) == IndexKeys[i + 1]

RECURSIVE DropNulls(_)
DropNulls(items) ==
    IF items = <<>> THEN <<>>
    ELSE IF Head(items).val = NullV THEN DropNulls(Tail(items))
    ELSE <<Head(items)>> \o DropNulls(Tail(items))

RECURSIVE StripTrailingNulls(_)
StripTrailingNulls(items) ==
    IF items # <<>> /\ items[Len(items)].val = NullV
    THEN StripTrailingNulls(SubSeq(items, 1, Len(items) - 1))
    ELSE items

\* NULL is equivalent to absence: a tree without its NULL map values, its
\* maps left with nothing, and the trailing NULLs of its lists.
RECURSIVE Norm(_)
Norm(x) ==
    CASE x.t = "map" ->
            LET items == DropNulls([i \in 1..Len(x.items) |->
                             Entry(x.items[i].key, Norm(x.items[i].val))])
            IN  IF items = <<>> THEN NullV ELSE MapOf(items)
      [] x.t = "list" ->
            ListOf(StripTrailingNulls([i \in 1..Len(x.items) |->
                       Entry("", Norm(x.items[i].val))]))
      [] OTHER -> x

\* A tree with the entries of each map as a set: equality of Objects does
\* not depend on the order of a map's keys.
RECURSIVE Canon(_)
Canon(x) ==
    CASE x.t = "map" ->
            [t |-> "map",
             items |-> {Entry(x.items[i].key, Canon(x.items[i].val)) : i \in 1..Len(x.items)}]
      [] x.t = "list" ->
            ListOf([i \in 1..Len(x.items) |-> Entry("", Canon(x.items[i].val))])
      [] OTHER -> x

\* operator==(const ConstObject&, const ConstObject&)
ObjectEq(x, y) == Canon(x) = Canon(y)

\* Equal when NULL is taken for absence.
Same(x, y) == Canon(Norm(x)) = Canon(Norm(y))

EmptyDiff == MapOf(<<>>)

AllIndexKeys(d) == \A i \in 1..Len(d.items) : IsIndexKey(d.items[i].key)

RemoveKeyKept(items, k) == items

RemoveKey(items, k) ==
    LET keep == {i \in 1..Len(items) : items[i].key # k}
        F[n \in 0..Len(items)] ==
            IF n = 0 THEN <<>>
            ELSE IF n \in keep THEN Append(F[n - 1], items[n]) ELSE F[n - 1]
    IN  F[Len(items)]

SetKeyFront(items, k, v) ==
    IF \E i \in 1..Len(items) : items[i].key = k
    THEN [i \in 1..Len(items) |-> IF items[i].key = k THEN Entry(k, v) ELSE items[i]]
    ELSE <<Entry(k, v)>> \o items

SetKey(items, k, v) ==
    IF \E i \in 1..Len(items) : items[i].key = k
    THEN [i \in 1..Len(items) |-> IF items[i].key = k THEN Entry(k, v) ELSE items[i]]
    ELSE Append(items, Entry(k, v))

\* A list with position i set, padded with NULLs up to it.
SetIndex(items, i, v) ==
    [j \in 1..(IF i + 1 > Len(items) THEN i + 1 ELSE Len(items)) |->
        IF j = i + 1 THEN Entry("", v)
        ELSE IF j <= Len(items) THEN items[j] ELSE Entry("", NullV)]

ElementAt(items, i) == IF i < Len(items) THEN items[i + 1].val ELSE NullV

\* object_merge(base, diff): a scalar or a list in the diff overwrites; a
\* map is applied key by key, on a list as positions, a NULL erasing.
RECURSIVE object_merge(_, _)
RECURSIVE MergeMap(_, _)
RECURSIVE MergeList(_, _)

MergeMap(items, ditems) ==
    IF ditems = <<>> THEN items
    ELSE LET k == Head(ditems).key
             dv == Head(ditems).val
             next == IF dv = NullV THEN RemoveKey(items, k)
                     ELSE SetKey(items, k, object_merge(Lookup(MapOf(items), k), dv))
         IN  MergeMap(next, Tail(ditems))

MergeList(items, ditems) ==
    IF ditems = <<>> THEN items
    ELSE LET i == KeyIndex(Head(ditems).key)
             dv == Head(ditems).val
             v == IF dv = NullV THEN NullV ELSE object_merge(ElementAt(items, i), dv)
         IN  MergeList(SetIndex(items, i, v), Tail(ditems))

object_merge(base, diff) ==
    IF diff.t # "map" THEN diff
    ELSE IF diff.items = <<>> THEN base
    ELSE IF base.t = "list" /\ AllIndexKeys(diff)
    THEN ListOf(StripTrailingNulls(MergeList(base.items, diff.items)))
    ELSE MapOf(MergeMap(IF base.t = "map" THEN base.items ELSE <<>>, diff.items))

\* The keys of base in order, then the keys only modified has.
UnionKeys(b, m) ==
    [i \in 1..Len(b.items) |-> b.items[i].key]
    \o LET new == {i \in 1..Len(m.items) : ~HasKey(b, m.items[i].key)}
           F[n \in 0..Len(m.items)] ==
               IF n = 0 THEN <<>>
               ELSE IF n \in new THEN Append(F[n - 1], m.items[n].key) ELSE F[n - 1]
       IN  F[Len(m.items)]

LongerIsBase(a, b) == a

Longer(a, b) == IF a > b THEN a ELSE b

\* The entry of a diff for two values that are not the same: NULL when the
\* modified one is absent, the changed keys of two maps, the changed
\* positions of two lists, the modified value otherwise.
RECURSIVE DiffValue(_, _)
DiffValue(b, m) ==
    IF Norm(m) = NullV THEN NullV
    ELSE IF b.t = "map" /\ m.t = "map"
    THEN LET keys == UnionKeys(b, m)
         IN  MapOf(Flatten([i \in 1..Len(keys) |->
                 IF Same(Lookup(b, keys[i]), Lookup(m, keys[i])) THEN <<>>
                 ELSE <<Entry(keys[i], DiffValue(Lookup(b, keys[i]), Lookup(m, keys[i])))>>]))
    ELSE IF b.t = "list" /\ m.t = "list"
    THEN LET n == Longer(Len(b.items), Len(m.items))
         IN  MapOf(Flatten([i \in 1..n |->
                 IF Same(ElementAt(b.items, i - 1), ElementAt(m.items, i - 1)) THEN <<>>
                 ELSE <<Entry(IndexKey(i - 1),
                              DiffValue(ElementAt(b.items, i - 1), ElementAt(m.items, i - 1)))>>]))
    ELSE Norm(m)

\* object_diff(base, modified)
object_diff(base, modified) ==
    IF Same(base, modified) THEN EmptyDiff ELSE DiffValue(base, modified)

\* The trees tried: scalars, maps over a key and a key that is also a list
\* index, short lists, and one more level of nesting.
Scalars == {IntV(1), IntV(2), NullV}
TreeKeys == <<"a", "0">>

MapsOver(V) ==
    {MapOf(Flatten([i \in 1..Len(TreeKeys) |->
                IF f[i] = EmptyObject THEN <<>> ELSE <<Entry(TreeKeys[i], f[i])>>])) :
        f \in [1..Len(TreeKeys) -> V \cup {EmptyObject}]}

ListsOver(V) ==
    UNION {{ListOf([i \in 1..n |-> Entry("", f[i])]) : f \in [1..n -> V]} :
           n \in 0..MaxListLen}

Flat == MapsOver(Scalars) \cup ListsOver(Scalars)

Trees ==
    Scalars \cup Flat
    \cup {MapOf(<<Entry("a", t)>>) : t \in Flat}
    \cup {ListOf(<<Entry("", t)>>) : t \in Flat}

DiffIdle ==
    /\ df_pc = "idle"
    /\ df_base = NullV
    /\ df_other = NullV
    /\ df_diff = NullV
    /\ df_merged = NullV
    /\ df_back = NullV

DiffStart ==
    /\ df_pc = "idle"
    /\ \E base \in Trees, other \in Trees :
         /\ df_base' = base
         /\ df_other' = other
    /\ df_pc' = "start"
    /\ UNCHANGED <<df_diff, df_merged, df_back>>
    /\ UNCHANGED notDiff

\* d = object_diff(base, modified)
DiffModified ==
    /\ df_pc = "start"
    /\ df_diff' = object_diff(df_base, df_other)
    /\ df_pc' = "diffed"
    /\ UNCHANGED <<df_base, df_other, df_merged, df_back>>
    /\ UNCHANGED notDiff

\* object_merge(base, d)
MergeDiff ==
    /\ df_pc = "diffed"
    /\ df_merged' = object_merge(df_base, df_diff)
    /\ df_pc' = "merged"
    /\ UNCHANGED <<df_base, df_other, df_diff, df_back>>
    /\ UNCHANGED notDiff

\* object_diff(base, object_merge(base, d))
DiffMerged ==
    /\ df_pc = "merged"
    /\ df_back' = object_diff(df_base, df_merged)
    /\ df_pc' = "rediffed"
    /\ UNCHANGED <<df_base, df_other, df_diff, df_merged>>
    /\ UNCHANGED notDiff

\* The second tree taken as a diff: object_merge(base, d)
ApplyDiff ==
    /\ df_pc = "start"
    /\ df_merged' = object_merge(df_base, df_other)
    /\ df_pc' = "applied"
    /\ UNCHANGED <<df_base, df_other, df_diff, df_back>>
    /\ UNCHANGED notDiff

\* object_diff(base, object_merge(base, d))
DiffApplied ==
    /\ df_pc = "applied"
    /\ df_back' = object_diff(df_base, df_merged)
    /\ df_pc' = "undiffed"
    /\ UNCHANGED <<df_base, df_other, df_diff, df_merged>>
    /\ UNCHANGED notDiff

DiffNext ==
    \/ DiffStart
    \/ DiffModified
    \/ MergeDiff
    \/ DiffMerged
    \/ ApplyDiff
    \/ DiffApplied

\* ------------------------------------------------------------------------
\* DebugWriter: the writer that renders a visited value as text, one record
\* per line of its output: the number of leading spaces, the "key: " prefix,
\* the text and the end of the line ("{" opens, "}," closes, "," a scalar).
\* The visitor calls it under the ordering contract of the packer protocol:
\* children strictly between begin and end, each field of an object
\* preceded by object_next(key).  list_next and tuple_next write nothing.
\* ------------------------------------------------------------------------

\* Bounds: containers the visitor nests, lines it asks for before it only closes.
MaxDepth == 2
MaxLines == 5

Indent == 4

DebugLine(indent, key, text, tail) ==
    [indent |-> indent, key |-> key, text |-> text, tail |-> tail]

DebugKinds == {"(object)", "(list)", "(optional, has_value)"}
DebugScalars == {"5", "true"}
DebugKeys == {"index"}

DebugIdle ==
    /\ dbg_pc = "idle"
    /\ dbg_stack = <<>>
    /\ dbg_depth = 0
    /\ dbg_key = ""
    /\ dbg_lines = <<>>
    /\ dbg_scalars = 0

\* DebugWriter(os).value(x)
DebugValue ==
    /\ dbg_pc = "idle"
    /\ dbg_pc' = "open"
    /\ UNCHANGED <<dbg_stack, dbg_depth, dbg_key, dbg_lines, dbg_scalars>>
    /\ UNCHANGED notDebug

\* Inside an object a value is due only after object_next(key).
ValueDue ==
    /\ dbg_pc = "open"
    /\ Len(dbg_lines) < MaxLines
    /\ (dbg_stack # <<>> /\ Top(dbg_stack) = "(object)") <=> dbg_key # ""

\* object_next(key): the key is written in front of the next value.
DebugObjectNext ==
    /\ dbg_pc = "open"
    /\ Len(dbg_lines) < MaxLines
    /\ dbg_stack # <<>>
    /\ Top(dbg_stack) = "(object)"
    /\ dbg_key = ""
    /\ \E key \in DebugKeys : dbg_key' = key
    /\ UNCHANGED <<dbg_pc, dbg_stack, dbg_depth, dbg_lines, dbg_scalars>>
    /\ UNCHANGED notDebug

\* object_begin, list_begin, optional_begin(true), ...: the opening line at
\* the current depth, then one level deeper.
DebugBegin ==
    /\ ValueDue
    /\ Len(dbg_stack) < MaxDepth
    /\ \E kind \in DebugKinds :
         /\ dbg_lines' = Append(dbg_lines,
                                DebugLine(Indent * dbg_depth, dbg_key, kind, "{"))
         /\ dbg_stack' = Append(dbg_stack, kind)
    /\ dbg_depth' = dbg_depth + 1
    /\ dbg_key' = ""
    /\ UNCHANGED <<dbg_pc, dbg_scalars>>
    /\ UNCHANGED notDebug

\* The variation of DebugEnd that writes the closing line before it steps
\* back one level.
DebugEndLate ==
    /\ dbg_pc = "open"
    /\ dbg_stack # <<>>
    /\ dbg_key = ""
    /\ dbg_depth' = dbg_depth - 1
    /\ dbg_lines' = Append(dbg_lines, DebugLine(Indent * dbg_depth, "", "", "},"))
    /\ dbg_stack' = Pop(dbg_stack)
    /\ dbg_pc' = IF Len(dbg_stack) = 1 THEN "done" ELSE "open"
    /\ UNCHANGED <<dbg_key, dbg_scalars>>
    /\ UNCHANGED notDebug

\* object_end, list_end, optional_end, ...: one level back, then the closing
\* line.  The end of the outermost container ends the value.
DebugEnd ==
    /\ dbg_pc = "open"
    /\ dbg_stack # <<>>
    /\ dbg_key = ""
    /\ dbg_depth' = dbg_depth - 1
    /\ dbg_lines' = Append(dbg_lines, DebugLine(Indent * (dbg_depth - 1), "", "", "},"))
    /\ dbg_stack' = Pop(dbg_stack)
    /\ dbg_pc' = IF Len(dbg_stack) = 1 THEN "done" ELSE "open"
    /\ UNCHANGED <<dbg_key, dbg_scalars>>
    /\ UNCHANGED notDebug

\* primitive, string, boolean, enumerate: one line at the current depth.
DebugScalar ==
    /\ ValueDue
    /\ \E text \in DebugScalars :
         dbg_lines' = Append(dbg_lines, DebugLine(Indent * dbg_depth, dbg_key, text, ","))
    /\ dbg_scalars' = dbg_scalars + 1
    /\ dbg_key' = ""
    /\ dbg_pc' = IF dbg_stack = <<>> THEN "done" ELSE "open"
    /\ UNCHANGED <<dbg_stack, dbg_depth>>
    /\ UNCHANGED notDebug

DebugNext ==
    \/ DebugValue
    \/ DebugObjectNext
    \/ DebugBegin
    \/ DebugEnd
    \/ DebugScalar

\* The output the test expects for Entity::example(): leading spaces and end
\* of each of its lines.
XL(indent, tail) == [indent |-> indent, tail |-> tail]

ExpectedLines ==
    <<
      XL(0, "{"), XL(4, ","), XL(4, ","), XL(4, ","),
      XL(4, "{"), XL(8, ","), XL(8, ","), XL(8, ","),
      XL(4, "},"), XL(4, ","), XL(4, "{"), XL(8, "{"),
      XL(12, "{"), XL(16, ","), XL(12, "},"), XL(8, "},"),
      XL(4, "},"), XL(4, "{"), XL(8, ","), XL(8, ","),
      XL(8, "{"), XL(12, "{"), XL(16, ","), XL(16, ","),
      XL(16, ","), XL(12, "},"), XL(12, "{"), XL(16, ","),
      XL(16, ","), XL(16, ","), XL(12, "},"), XL(12, "{"),
      XL(16, ","), XL(16, ","), XL(16, ","), XL(12, "},"),
      XL(12, "{"), XL(16, ","), XL(16, ","), XL(16, ","),
      XL(12, "},"), XL(8, "},"), XL(4, "},"), XL(4, "{"),
      XL(8, "{"), XL(12, ","), XL(12, ","), XL(8, "},"),
      XL(8, "{"), XL(12, ","), XL(12, ","), XL(8, "},"),
      XL(8, "{"), XL(12, ","), XL(12, ","), XL(8, "},"),
      XL(8, "{"), XL(12, ","), XL(12, ","), XL(8, "},"),
      XL(4, "},"), XL(4, "{"), XL(8, ","), XL(8, ","),
      XL(8, ","), XL(4, "},"), XL(4, "{"), XL(8, "{"),
      XL(12, ","), XL(12, ","), XL(8, "},"), XL(8, "{"),
      XL(12, ","), XL(12, ","), XL(8, "},"), XL(4, "},"),
      XL(4, "{"), XL(8, "{"), XL(12, ","), XL(12, ","),
      XL(8, "},"), XL(8, "{"), XL(12, ","), XL(12, ","),
      XL(8, "},"), XL(8, "{"), XL(12, ","), XL(12, ","),
      XL(8, "},"), XL(4, "},"), XL(0, "},")
    >>

\* ------------------------------------------------------------------------
\* Constraints.  A number is [hi, lo], standing for hi * 2^53 + lo with lo
\* small: the integers around 0 and around 2^53, where a double stops
\* holding every integer.
\* ------------------------------------------------------------------------

\* Bound: the numbers tried reach this far from 0 and from 2^53.
MaxOffset == 3

Num(hi, lo) == [hi |-> hi, lo |-> lo]

\* a <= b
LessEq(a, b) == a.hi < b.hi \/ (a.hi = b.hi /\ a.lo <= b.lo)

\* A double holds every integer up to 2^53 and every second one above it.
IsDouble(v) == v.hi = 0 \/ v.lo <= 0 \/ v.lo % 2 = 0

\* The values of a kind among the numbers tried: 2^53 and its neighbours
\* are int64_t and uint64_t values, negative numbers are not unsigned, and
\* a float or a double holds only what it can represent.
NumericKinds == {"I32", "I64", "U32", "U64", "F32", "F64"}

Numbers == {Num(hi, lo) : hi \in {0, 1}, lo \in (0 - MaxOffset)..MaxOffset}

ValuesOfKind(kind) ==
    CASE kind \in {"I32", "F32"} -> {v \in Numbers : v.hi = 0}
      [] kind = "U32" -> {v \in Numbers : v.hi = 0 /\ v.lo >= 0}
      [] kind = "I64" -> Numbers
      [] kind = "U64" -> {v \in Numbers : v.hi = 1 \/ v.lo >= 0}
      [] kind = "F64" -> {v \in Numbers : IsDouble(v)}
      [] kind = "List" -> {v \in Numbers : v.hi = 0 /\ v.lo >= 0}

\* The implicit conversion of the argument to double: the value when a
\* double holds it, else one of its two neighbours, as the implementation
\* chooses.
ToDouble(v) ==
    IF IsDouble(v) THEN {v} ELSE {Num(v.hi, v.lo - 1), Num(v.hi, v.lo + 1)}

RangeConstraint(lower, upper) == [lower |-> lower, upper |-> upper]
LengthConstraint(length) == [length |-> length]

\* bool validate(double value) const { return lower <= value && value <= upper; }
RangeValidate(c, value) == LessEq(c.lower, value) /\ LessEq(value, c.upper)

ConstraintIdle ==
    /\ cn_pc = "idle"
    /\ cn_kind = ""
    /\ cn_value = Num(0, 0)
    /\ cn_c = RangeConstraint(Num(0, 0), Num(0, 0))
    /\ cn_double = Num(0, 0)
    /\ cn_valid = TRUE
    /\ cn_failed = FALSE
    /\ cn_error = ""

\* A value of a numeric kind is decoded at a site that declares a Range.
DecodeRanged ==
    /\ cn_pc = "idle"
    /\ \E kind \in NumericKinds :
         /\ cn_kind' = kind
         /\ \E v \in ValuesOfKind(kind) : cn_value' = v
    /\ \E lower \in {n \in Numbers : IsDouble(n)}, upper \in {n \in Numbers : IsDouble(n)} :
         cn_c' = RangeConstraint(lower, upper)
    /\ cn_pc' = "decoded"
    /\ UNCHANGED <<cn_double, cn_valid, cn_failed, cn_error>>
    /\ UNCHANGED notConstraint

\* inline bool validate(const T& value, const RangeConstraint& c): the call
\* c.validate(value) converts value to double.
Convert ==
    /\ cn_pc = "decoded"
    /\ cn_kind \in NumericKinds
    /\ \E d \in ToDouble(cn_value) : cn_double' = d
    /\ cn_pc' = "converted"
    /\ UNCHANGED <<cn_kind, cn_value, cn_c, cn_valid, cn_failed, cn_error>>
    /\ UNCHANGED notConstraint

Validate ==
    /\ cn_pc = "converted"
    /\ cn_valid' = RangeValidate(cn_c, cn_double)
    /\ cn_pc' = "validated"
    /\ UNCHANGED <<cn_kind, cn_value, cn_c, cn_double, cn_failed, cn_error>>
    /\ UNCHANGED notConstraint

\* A list is decoded at a site that declares a Length: the number of
\* elements read is held against the length declared.
DecodeLength ==
    /\ cn_pc = "idle"
    /\ cn_kind' = "List"
    /\ \E n \in ValuesOfKind("List"), length \in ValuesOfKind("List") :
         /\ cn_value' = n
         /\ cn_c' = LengthConstraint(length)
         /\ cn_valid' = (n = length)
    /\ cn_pc' = "validated"
    /\ UNCHANGED <<cn_double, cn_failed, cn_error>>
    /\ UNCHANGED notConstraint

\* The reader enforces the outcome: a violation sets its failure flag and
\* records ConstraintViolation.
Enforce ==
    /\ cn_pc = "validated"
    /\ cn_failed' = ~cn_valid
    /\ cn_error' = IF cn_valid THEN "" ELSE "ConstraintViolation"
    /\ cn_pc' = "done"
    /\ UNCHANGED <<cn_kind, cn_value, cn_c, cn_double, cn_valid>>
    /\ UNCHANGED notConstraint

ConstraintNext ==
    \/ DecodeRanged
    \/ Convert
    \/ Validate
    \/ DecodeLength
    \/ Enforce

\* ------------------------------------------------------------------------
\* Label tables: the labelled sums of the example (example.cpp), looking an
\* alternative up by its label (labelled_variant.hpp) and define for a
\* labelled variant (common/variant.hpp).
\* ------------------------------------------------------------------------

\* What a lookup by label yields: a value, an empty optional, an exception,
\* or a read past the end of the label table.
Found(value) == [kind |-> "value", value |-> value, exc |-> ""]
NullOpt == [kind |-> "nullopt", value |-> "", exc |-> ""]
Thrown(message) == [kind |-> "threw", value |-> "", exc |-> message]
PastTable == [kind |-> "ub", value |-> "", exc |-> ""]

\* enum_details<Physics>::labels
PhysicsLabels == <<"dynamic", "kinematic", "static">>

PhysicsValues == {"Dynamic", "Kinematic", "Static"}

\* enum_details<Physics>::to_label
physics_to_label(value) ==
    CASE value = "Dynamic" -> "dynamic"
      [] value = "Kinematic" -> "kinematic"
      [] value = "Static" -> "static"
      [] OTHER -> ""

physics_from_label_default(label) ==
    IF label = "dynamic" THEN Found("Dynamic")
    ELSE IF label = "kinematic" THEN Found("Kinematic")
    ELSE IF label = "static" THEN Found("Static")
    ELSE Found("Dynamic")

\* enum_details<Physics>::from_label
physics_from_label(label) ==
    IF label = "dynamic" THEN Found("Dynamic")
    ELSE IF label = "kinematic" THEN Found("Kinematic")
    ELSE IF label = "static" THEN Found("Static")
    ELSE Thrown("Invalid label")

\* variant_details<Shape>::labels
ShapeLabels == <<"circle", "rect">>

ShapeValues == {"Circle", "Rect"}

\* variant_details<Shape>::to_label
shape_to_label(value) ==
    IF value = "Circle" THEN "circle"
    ELSE IF value = "Rect" THEN "rect"
    ELSE ""

\* variant_details<Shape>::from_label
shape_from_label(label) ==
    IF label = "circle" THEN Found("Circle")
    ELSE IF label = "rect" THEN Found("Rect")
    ELSE Thrown("Invalid label")

\* variant_from_label_iter<T, Next, Remainder...>, and its base case when
\* the alternatives are used up; the value found is the index of the
\* alternative.
RECURSIVE variant_from_label_iter(_, _, _)
variant_from_label_iter(T, label, index) ==
    IF index = T.arms THEN NullOpt
    ELSE IF index >= Len(T.labels) THEN PastTable
    ELSE IF T.labels[index + 1] = label THEN Found(index)
    ELSE variant_from_label_iter(T, label, index + 1)

variant_from_label_from_one(T, label) == variant_from_label_iter(T, label, 1)

\* variant_from_label<Args...>
variant_from_label(T, label) == variant_from_label_iter(T, label, 0)

\* define for a labelled variant: variant_begin, for each label of the table
\* variant_next(label) and the value of variant_from_label(label).value(),
\* variant_end.  value() of an empty optional throws.
define(T) ==
    LET n == Len(T.labels)
        bad == {i \in 1..n : variant_from_label(T, T.labels[i]).kind # "value"}
        stop == IF bad = {} THEN n + 1 ELSE CHOOSE i \in bad : \A j \in bad : i <= j
        arm(i) ==
            <<Call("variant_next", T.labels[i], 0),
              Call("value", "", variant_from_label(T, T.labels[i]).value)>>
        arms == Flatten([i \in 1..(stop - 1) |-> arm(i)])
    IN  IF bad = {}
        THEN [calls |-> <<Call("variant_begin", "", 0)>> \o arms
                        \o <<Call("variant_end", "", 0)>>,
              exc |-> "", ub |-> FALSE]
        ELSE LET r == variant_from_label(T, T.labels[stop])
             IN  [calls |-> <<Call("variant_begin", "", 0)>> \o arms
                            \o <<Call("variant_next", T.labels[stop], 0)>>,
                  exc |-> IF r.kind = "nullopt" THEN "std::bad_optional_access" ELSE "",
                  ub |-> r.kind = "ub"]

\* The labelled sums: the two of the example, and Token through the
\* variant_labels table.
Sums == {"Physics", "Shape", "Token"}

SumValues(sum) ==
    CASE sum = "Physics" -> PhysicsValues
      [] sum = "Shape" -> ShapeValues
      [] sum = "Token" -> {TokenKinds[i] : i \in 1..Len(TokenKinds)}

SumLabels(sum) ==
    CASE sum = "Physics" -> PhysicsLabels
      [] sum = "Shape" -> ShapeLabels
      [] sum = "Token" -> TokenLabels

\* Labels of no table of the example.
ForeignLabels == {"map", "hexagon", ""}

to_label(sum, value) ==
    CASE sum = "Physics" -> physics_to_label(value)
      [] sum = "Shape" -> shape_to_label(value)
      [] sum = "Token" -> variant_to_label(TokenVariant, TokenIndex(Tok(value)))

from_label(sum, label) ==
    CASE sum = "Physics" -> physics_from_label(label)
      [] sum = "Shape" -> shape_from_label(label)
      [] sum = "Token" ->
            LET r == variant_from_label(TokenVariant, label)
            IN  IF r.kind = "value" THEN Found(TokenKinds[r.value + 1]) ELSE r

NoDefine == [calls |-> <<>>, exc |-> "", ub |-> FALSE]

LabelIdle ==
    /\ lb_pc = "idle"
    /\ lb_sum = "Physics"
    /\ lb_value = ""
    /\ lb_label = ""
    /\ lb_back = NullOpt
    /\ lb_out = ""
    /\ lb_def = NoDefine
    /\ lb_index = 0
    /\ lb_target = 0
    /\ lb_failed = FALSE

LabelValue ==
    /\ lb_pc = "idle"
    /\ \E sum \in Sums : \E value \in SumValues(sum) :
         /\ lb_sum' = sum
         /\ lb_value' = value
    /\ lb_pc' = "value"
    /\ UNCHANGED <<lb_label, lb_back, lb_out, lb_def>>
    /\ UNCHANGED enumVars
    /\ UNCHANGED notLabel

LabelPick ==
    /\ lb_pc = "idle"
    /\ \E sum \in Sums :
         \E label \in {SumLabels(sum)[i] : i \in 1..Len(SumLabels(sum))} \cup ForeignLabels :
           /\ lb_sum' = sum
           /\ lb_label' = label
    /\ lb_pc' = "label"
    /\ UNCHANGED <<lb_value, lb_back, lb_out, lb_def>>
    /\ UNCHANGED enumVars
    /\ UNCHANGED notLabel

\* to_label of the value picked, or of the value from_label returned.
ToLabel ==
    /\ \/ lb_pc = "value"
       \/ lb_pc = "valued" /\ lb_back.kind = "value"
    /\ LET label == to_label(lb_sum, IF lb_pc = "value" THEN lb_value ELSE lb_back.value)
       IN  /\ label # Undefined
           /\ IF lb_pc = "value"
              THEN /\ lb_label' = label
                   /\ lb_pc' = "labelled"
                   /\ UNCHANGED lb_out
              ELSE /\ lb_out' = label
                   /\ lb_pc' = "relabelled"
                   /\ UNCHANGED lb_label
    /\ UNCHANGED <<lb_sum, lb_value, lb_back, lb_def>>
    /\ UNCHANGED enumVars
    /\ UNCHANGED notLabel

\* variant_to_label reads past the end of the label table: the program
\* stops, or what lies there is the label.
ToLabelUndefined ==
    /\ \/ lb_pc = "value"
       \/ lb_pc = "valued" /\ lb_back.kind = "value"
    /\ to_label(lb_sum, IF lb_pc = "value" THEN lb_value ELSE lb_back.value) = Undefined
    /\ \/ /\ lb_pc' = "ub"
          /\ UNCHANGED <<lb_label, lb_out>>
       \/ /\ lb_pc = "value"
          /\ lb_label' = Undefined
          /\ lb_pc' = "labelled"
          /\ UNCHANGED lb_out
       \/ /\ lb_pc = "valued"
          /\ lb_out' = Undefined
          /\ lb_pc' = "relabelled"
          /\ UNCHANGED lb_label
    /\ UNCHANGED <<lb_sum, lb_value, lb_back, lb_def>>
    /\ UNCHANGED enumVars
    /\ UNCHANGED notLabel

\* from_label of the label picked, or of the label to_label returned.
FromLabel ==
    /\ lb_pc \in {"label", "labelled"}
    /\ LET r == from_label(lb_sum, lb_label)
       IN  /\ r.kind # "ub"
           /\ lb_back' = r
    /\ lb_pc' = IF lb_pc = "label" THEN "valued" ELSE "back"
    /\ UNCHANGED <<lb_sum, lb_value, lb_label, lb_out, lb_def>>
    /\ UNCHANGED enumVars
    /\ UNCHANGED notLabel

\* variant_from_label_iter compares with what lies past the end of the
\* label table: the program stops, or the strings are equal (the last
\* alternative is returned), or they differ (nullopt).
FromLabelUndefined ==
    /\ lb_pc \in {"label", "labelled"}
    /\ from_label(lb_sum, lb_label).kind = "ub"
    /\ \/ /\ lb_pc' = "ub"
          /\ UNCHANGED lb_back
       \/ /\ \E r \in {Found(TokenKinds[TokenVariant.arms]), NullOpt} : lb_back' = r
          /\ lb_pc' = IF lb_pc = "label" THEN "valued" ELSE "back"
    /\ UNCHANGED <<lb_sum, lb_value, lb_label, lb_out, lb_def>>
    /\ UNCHANGED enumVars
    /\ UNCHANGED notLabel

\* define(definer, value) for a labelled variant.
Define ==
    /\ lb_pc = "idle"
    /\ \E sum \in {"Shape", "Token"} :
         /\ lb_sum' = sum
         /\ lb_def' = define(IF sum = "Shape" THEN ShapeVariant ELSE TokenVariant)
    /\ lb_pc' = "defined"
    /\ UNCHANGED <<lb_value, lb_label, lb_back, lb_out>>
    /\ UNCHANGED enumVars
    /\ UNCHANGED notLabel

\* What reader.enumerate(labels) may return for the table of Physics: an
\* index of the table, a negative int, or labels.size().
EnumReturns == -1..Len(PhysicsLabels)

\* read for a labelled enum: value = (T)reader.enumerate(enum_labels<T>());
ReadEnum ==
    /\ lb_pc = "idle"
    /\ \E index \in EnumReturns :
         /\ lb_index' = index
         /\ lb_target' = index
    /\ lb_sum' = "Physics"
    /\ lb_pc' = "enum_read"
    /\ UNCHANGED <<lb_value, lb_label, lb_back, lb_out, lb_def, lb_failed>>
    /\ UNCHANGED notLabel

LabelNext ==
    \/ LabelValue
    \/ LabelPick
    \/ ToLabel
    \/ ToLabelUndefined
    \/ FromLabel
    \/ FromLabelUndefined
    \/ Define
    \/ ReadEnum

\* ------------------------------------------------------------------------
\* Specifications
\* ------------------------------------------------------------------------

\* No load_binary call in progress.
LoadIdle ==
    /\ in_type = ""
    /\ in_bytes = <<>>
    /\ expect = <<>>
    /\ tokens = <<>>
    /\ data = <<>>
    /\ token_pos = 0
    /\ states = <<>>
    /\ reader = BinaryReaderInit
    /\ rcalls = <<>>
    /\ wcalls = <<>>
    /\ pc = "idle"
    /\ exc = ""
    /\ steps = 0
    /\ heads = {}

InitLoad == LoadInit /\ TokenInit /\ VariantIdle /\ ObjectIdle /\ DiffIdle /\ DebugIdle
    /\ ConstraintIdle /\ LabelIdle
SpecLoad == InitLoad /\ [][LoadNext]_vars

InitToken == TokenInit /\ LoadIdle /\ VariantIdle /\ ObjectIdle /\ DiffIdle /\ DebugIdle
    /\ ConstraintIdle /\ LabelIdle
SpecToken == InitToken /\ [][TokenNext]_vars

InitVariant == VariantIdle /\ LoadIdle /\ TokenInit /\ ObjectIdle /\ DiffIdle /\ DebugIdle
    /\ ConstraintIdle /\ LabelIdle
SpecVariant == InitVariant /\ [][VariantNext]_vars

InitObject == ObjectIdle /\ LoadIdle /\ TokenInit /\ VariantIdle /\ DiffIdle /\ DebugIdle
    /\ ConstraintIdle /\ LabelIdle
SpecObject == InitObject /\ [][ObjectNext]_vars

InitDiff == DiffIdle /\ LoadIdle /\ TokenInit /\ VariantIdle /\ ObjectIdle /\ DebugIdle
    /\ ConstraintIdle /\ LabelIdle
SpecDiff == InitDiff /\ [][DiffNext]_vars

InitDebug == DebugIdle /\ LoadIdle /\ TokenInit /\ VariantIdle /\ ObjectIdle /\ DiffIdle
    /\ ConstraintIdle /\ LabelIdle
SpecDebug == InitDebug /\ [][DebugNext]_vars

InitConstraint ==
    ConstraintIdle /\ LoadIdle /\ TokenInit /\ VariantIdle /\ ObjectIdle /\ DiffIdle
    /\ DebugIdle /\ LabelIdle
SpecConstraint == InitConstraint /\ [][ConstraintNext]_vars

InitLabel ==
    LabelIdle /\ LoadIdle /\ TokenInit /\ VariantIdle /\ ObjectIdle /\ DiffIdle
    /\ DebugIdle /\ ConstraintIdle
SpecLabel == InitLabel /\ [][LabelNext]_vars

\* ------------------------------------------------------------------------
\* Properties of load_binary.
\* ------------------------------------------------------------------------

\* The run was given the whole encoding of a value of a visitable type.
WholeValue == in_type # "" /\ data = in_bytes

\* C1: for every value v of a visitable type T,
\* load_binary(schema_of<T>(), write_binary(v)) returns, and the Object it
\* returns equals write_object(v).
C1_SchemaEqualsDirect ==
    WholeValue =>
        /\ pc \notin {"threw", "ub"}
        /\ pc = "returned" => ObjectOf(wcalls) = ObjectOf(expect)

\* C2: when the reader ran out of bytes, load_binary does not return an
\* Object (it raises LoadException).
C2_UnderflowRaises == reader.failed => pc # "returned"

TokenRoundTripOver == tk_pc \in {"done", "failed", "ub"}

\* C3: every schema, payload tokens included, written token by token as a
\* labelled variant and read back, yields a schema equal to it token by
\* token: the round trip always completes, with the tokens that were written.
C3_SchemaRoundTrip ==
    TokenRoundTripOver => (tk_pc = "done" /\ tk_read = tk_schema)

SamePayload(lhs, rhs) ==
    CASE lhs.kind \in {"Enumerate", "VariantBegin"} -> lhs.labels = rhs.labels
      [] lhs.kind \in {"VariantNext", "ObjectNext"} -> lhs.str = rhs.str
      [] lhs.kind \in {"TrivialBegin", "TrivialEnd"} -> lhs.size = rhs.size
      [] OTHER -> TRUE

\* C10: two tokens compare equal if and only if they are of the same kind
\* and, when the kind carries a payload, their payloads are equal; tokens of
\* a payload-free kind are always equal and tokens of different kinds never.
C10_TokenEquality ==
    tk_pc = "compared" =>
        (tk_eq <=> (tk_lhs.kind = tk_rhs.kind /\ SamePayload(tk_lhs, tk_rhs)))

\* Two TrivialEnd tokens of different sizes were compared and found unequal.
C10_Witness ==
    /\ tk_pc = "compared"
    /\ tk_lhs.kind = "TrivialEnd"
    /\ tk_rhs.kind = "TrivialEnd"
    /\ tk_lhs.size # tk_rhs.size
    /\ ~tk_eq

\* The reader's variant_match is true exactly for the label that was written.
ExactReader == vr_reader.matches = {vr_wcalls[1].s}

\* C6: write emits variant_begin with the label of the active alternative,
\* then the alternative's value, then variant_end; a read by a reader whose
\* variant_match is true exactly for that label yields the alternative that
\* was written.
C6_VariantRoundTrip ==
    /\ vr_pc \notin {"idle", "start"} =>
         /\ vr_arm < Len(vr_type.labels)
         /\ vr_wcalls = <<Call("variant_begin", vr_type.labels[vr_arm + 1], 0),
                          Call("value", "", vr_arm), Call("variant_end", "", 0)>>
    /\ (vr_pc \in {"read", "ub"} /\ vr_wcalls # <<>> /\ ExactReader) =>
         (vr_pc = "read" /\ ~vr_result.error /\ vr_result.arm = vr_arm)

\* C7: get<T>() on a handle whose node holds another kind fails with an
\* ObjectException of kind ObjectKindMismatch and leaves the tree unchanged.
C7_GetKindMismatch ==
    [][(/\ ob_op'.name = "get"
        /\ ob_pc' = "run"
        /\ ob_nodes[ob_op'.on + 1].value.t # ob_op'.arg)
       => (/\ ob_exc' = "ObjectException: ObjectKindMismatch"
           /\ ob_nodes' = ob_nodes
           /\ ob_free' = ob_free)]_vars

\* Node i of the arena.
NodeOf(i) == ob_nodes[i + 1]

\* The link the last navigation followed, on the node it started from.
FollowedLink ==
    CASE ob_op.name = "prev" -> NodeOf(ob_op.on).prev
      [] ob_op.name = "next" -> NodeOf(ob_op.on).next
      [] ob_op.name = "parent" -> NodeOf(ob_op.on).parent
      [] ob_op.name = "child" -> NodeOf(ob_op.on).child

\* C8: a default-constructed handle has index -1 and converts to false;
\* parent() of the root, child() of a childless node, prev() of a first
\* sibling and next() of a last sibling return a handle that converts to
\* false; get_if<T>() on an empty handle returns null and raises nothing.
C8_EmptyHandles ==
    /\ ob_op.name = "Object_()" => (ob_h.index = -1 /\ ~operator_bool(ob_h))
    /\ (/\ ob_op.name \in {"prev", "next", "parent", "child"}
        /\ ob_pc = "run"
        /\ FollowedLink = -1)
       => (ob_h.index = -1 /\ ~operator_bool(ob_h))
    /\ (ob_op.name = "get_if" /\ ob_op.on = -1) =>
         (ob_ret = "nullptr" /\ ob_exc = "" /\ ob_pc = "run")

\* prev() of a first sibling below the root returned the empty handle.
C8_Witness ==
    /\ ob_pc = "run"
    /\ ob_op.name = "prev"
    /\ NodeOf(ob_op.on).parent # -1
    /\ ob_h.index = -1

\* The nodes that are not on the free stack.
LiveNodes ==
    {i \in 0..(Len(ob_nodes) - 1) : \A k \in 1..Len(ob_free) : ob_free[k] # i}

RootShape == 0 \in LiveNodes => (NodeOf(0).parent = -1 /\ NodeOf(0).key = "")

SiblingLists ==
    \A x \in LiveNodes :
        LET n == NodeOf(x)
        IN  /\ x # 0 => n.parent # -1
            /\ n.parent # -1 =>
                 /\ n.parent \in LiveNodes
                 /\ \E k \in 1..Len(Children(ob_nodes, n.parent)) :
                        Children(ob_nodes, n.parent)[k] = x
            /\ n.child # -1 =>
                 /\ n.child \in LiveNodes
                 /\ NodeOf(n.child).prev = -1
                 /\ NodeOf(n.child).parent = x
            /\ n.next # -1 =>
                 /\ n.next \in LiveNodes
                 /\ NodeOf(n.next).prev = x
                 /\ NodeOf(n.next).parent = n.parent
            /\ n.prev # -1 =>
                 /\ n.prev \in LiveNodes
                 /\ NodeOf(n.prev).next = x
                 /\ NodeOf(n.prev).parent = n.parent

OnlyContainersHaveChildren ==
    \A x \in LiveNodes : NodeOf(x).child # -1 => NodeOf(x).value.t \in {"map", "list"}

ChildKeys(p) ==
    LET kids == Children(ob_nodes, p) IN [k \in 1..Len(kids) |-> NodeOf(kids[k]).key]

MapKeysDistinct ==
    \A p \in LiveNodes : NodeOf(p).value.t = "map" =>
        \A j, k \in 1..Len(ChildKeys(p)) : j # k => ChildKeys(p)[j] # ChildKeys(p)[k]

MapKeysNonEmpty ==
    \A p \in LiveNodes : NodeOf(p).value.t = "map" =>
        \A k \in 1..Len(ChildKeys(p)) : ChildKeys(p)[k] # ""

ListKeysEmpty ==
    \A p \in LiveNodes : NodeOf(p).value.t = "list" =>
        \A k \in 1..Len(ChildKeys(p)) : ChildKeys(p)[k] = ""

RECURSIVE ListTurnedIndexMap(_, _)
ListTurnedIndexMap(b, m) ==
    IF b.t = "list" /\ m.t = "map"
    THEN Norm(m) # NullV /\ AllIndexKeys(Norm(m))
    ELSE IF b.t = "map" /\ m.t = "map"
    THEN \E i \in 1..Len(m.items) :
            ListTurnedIndexMap(Lookup(b, m.items[i].key), m.items[i].val)
    ELSE IF b.t = "list" /\ m.t = "list"
    THEN \E i \in 1..Len(m.items) :
            ListTurnedIndexMap(ElementAt(b.items, i - 1), m.items[i].val)
    ELSE FALSE

RECURSIVE HasNullOnlyMap(_, _)
HasNullOnlyMap(d, root) ==
    /\ d.t = "map"
    /\ \/ (~root \/ d.items # <<>>) /\ \A i \in 1..Len(d.items) : d.items[i].val = NullV
       \/ \E i \in 1..Len(d.items) : HasNullOnlyMap(d.items[i].val, FALSE)

\* A scalar of the diff repeats the value base has at the same place.
RECURSIVE RepeatsScalar(_, _)
RepeatsScalar(b, d) ==
    IF d.t = "map"
    THEN \E i \in 1..Len(d.items) :
            RepeatsScalar(IF b.t = "list" /\ AllIndexKeys(d)
                          THEN ElementAt(b.items, KeyIndex(d.items[i].key))
                          ELSE IF b.t = "map" THEN Lookup(b, d.items[i].key)
                          ELSE NullV,
                          d.items[i].val)
    ELSE d.t \notin {"list", "null"} /\ b = d

NonRedundant(b, d) == ~HasNullOnlyMap(d, TRUE) /\ ~RepeatsScalar(b, d)

OpenAt(ls, i) ==
    Cardinality({j \in 1..(i - 1) : ls[j].tail = "{"})
    - Cardinality({j \in 1..i : ls[j].tail = "},"})

Indented(ls) == \A i \in 1..Len(ls) : ls[i].indent = 4 * OpenAt(ls, i)

\* Line j closes the container line i opens: same indentation, and every
\* line between them lies deeper.
Closes(ls, i, j) ==
    /\ i < j
    /\ ls[i].tail = "{"
    /\ ls[j].tail = "},"
    /\ ls[i].indent = ls[j].indent
    /\ \A k \in (i + 1)..(j - 1) : ls[k].indent > ls[i].indent

\* Every closing line closes an opening line; in a finished output every
\* opening line is closed.
Bracketed(ls, finished) ==
    /\ \A j \in 1..Len(ls) : ls[j].tail = "}," => \E i \in 1..Len(ls) : Closes(ls, i, j)
    /\ finished => \A i \in 1..Len(ls) :
                      ls[i].tail = "{" => \E j \in 1..Len(ls) : Closes(ls, i, j)

\* C11: in the debug writer's output every line is indented by four spaces
\* times the number of containers open at that point, every opening line
\* ends with "{" and is closed by a "}," line at its own indentation, each
\* scalar occupies exactly one line, and at the end of a top-level value the
\* depth is back to zero.  The output the test expects has the same layout.
C11_DebugLayout ==
    /\ Indented(dbg_lines)
    /\ Bracketed(dbg_lines, dbg_pc = "done")
    /\ Cardinality({i \in 1..Len(dbg_lines) : dbg_lines[i].tail = ","}) = dbg_scalars
    /\ \A i \in 1..Len(dbg_lines) :
         dbg_lines[i].tail = "{" <=> dbg_lines[i].text \in DebugKinds
    /\ dbg_pc = "done" => dbg_depth = 0 /\ dbg_stack = <<>>
    /\ Indented(ExpectedLines)
    /\ Bracketed(ExpectedLines, TRUE)

\* A finished value with a scalar two containers deep.
C11_Witness ==
    /\ dbg_pc = "done"
    /\ \E i \in 1..Len(dbg_lines) :
         dbg_lines[i].tail = "," /\ dbg_lines[i].indent = 8

\* ------------------------------------------------------------------------
\* Properties of object_merge and object_diff, entry by entry.
\* ------------------------------------------------------------------------

KeysOf(m) == [i \in 1..Len(m.items) |-> m.items[i].key]

\* The keys of ks that satisfy Keep, in the order of ks.
KeysKept(ks, Keep(_)) ==
    LET F[n \in 0..Len(ks)] ==
            IF n = 0 THEN <<>>
            ELSE IF Keep(ks[n]) THEN Append(F[n - 1], ks[n]) ELSE F[n - 1]
    IN  F[Len(ks)]

\* result is base with the map diff applied as the documentation of merge
\* describes it; a base that is no map counts as one without entries.
RECURSIVE MergedAsDescribed(_, _, _)
MergedAsDescribed(base, diff, result) ==
    LET b == IF base.t = "map" THEN base ELSE MapOf(<<>>)
        Erased(k) == HasKey(diff, k) /\ Lookup(diff, k) = NullV
        Stays(k) == ~Erased(k)
        Added(k) == ~HasKey(b, k) /\ ~Erased(k)
    IN  /\ result.t = "map"
        /\ KeysOf(result) = KeysKept(KeysOf(b), Stays) \o KeysKept(KeysOf(diff), Added)
        /\ \A i \in 1..Len(diff.items) :
             LET k == diff.items[i].key
                 dv == diff.items[i].val
             IN  CASE dv = NullV -> ~HasKey(result, k)
                   [] dv.t = "int" -> Lookup(result, k) = dv
                   [] dv.t = "map" /\ dv.items # <<>> /\ Lookup(b, k).t # "list" ->
                          MergedAsDescribed(Lookup(b, k), dv, Lookup(result, k))
                   [] OTHER -> TRUE
        /\ \A i \in 1..Len(b.items) :
             ~HasKey(diff, b.items[i].key)
                => Lookup(result, b.items[i].key) = b.items[i].val

MergeExampleBase ==
    MapOf(<<Entry("a", IntV(1)), Entry("b", MapOf(<<Entry("x", IntV(2))>>))>>)
MergeExampleDiff ==
    MapOf(<<Entry("b", MapOf(<<Entry("x", NullV), Entry("y", IntV(3))>>)),
            Entry("c", IntV(4))>>)
MergeExampleResult ==
    MapOf(<<Entry("a", IntV(1)), Entry("b", MapOf(<<Entry("y", IntV(3))>>)),
            Entry("c", IntV(4))>>)

\* C12: object_merge(base, diff) of a map base and a map diff has no entry
\* at a key the diff maps to NULL, the diff's scalar where the diff holds a
\* scalar, the keys only the diff has appended after the base's keys (with
\* the maps on the way created), and every entry the diff does not mention
\* unchanged; merge({"a":1,"b":{"x":2}}, {"b":{"x":null,"y":3},"c":4}) is
\* {"a":1,"b":{"y":3},"c":4}.
C12_MergeEntries ==
    /\ (df_pc = "applied" /\ df_base.t = "map" /\ df_other.t = "map"
            /\ df_other.items # <<>>)
          => MergedAsDescribed(df_base, df_other, df_merged)
    /\ (df_pc = "applied" /\ df_base.t = "map" /\ df_other = EmptyDiff)
          => df_merged = df_base
    /\ df_pc = "applied"
          => object_merge(MergeExampleBase, MergeExampleDiff) = MergeExampleResult

\* A merge that erases a key of the base and appends a key of the diff.
C12_Witness ==
    /\ df_pc = "applied"
    /\ df_base.t = "map"
    /\ df_other.t = "map"
    /\ \E k \in {"a", "0"} :
         HasKey(df_base, k) /\ HasKey(df_other, k) /\ Lookup(df_other, k) = NullV
    /\ \E k \in {"a", "0"} :
         ~HasKey(df_base, k) /\ HasKey(df_other, k) /\ Lookup(df_other, k) # NullV
    /\ df_merged.items # <<>>

\* The first n elements of the two lists are equal.
SamePrefix(b, m, n) == \A i \in 1..n : b.items[i].val = m.items[i].val

\* The diff d of the lists b and m as the documentation of diff describes it.
ListDiffAsDescribed(b, m, d) ==
    LET nb == Len(b.items)
        nm == Len(m.items)
        Between(lo, hi) == {IndexKey(i) : i \in lo..(hi - 1)}
        Keys == {d.items[i].key : i \in 1..Len(d.items)}
    IN  /\ d.t = "map"
        /\ AllIndexKeys(d)
        /\ \A i \in 1..nb : i <= nm /\ b.items[i].val = m.items[i].val
                               => ~HasKey(d, IndexKey(i - 1))
        /\ (nm > nb /\ SamePrefix(b, m, nb))
              => /\ Keys = Between(nb, nm)
                 /\ \A i \in nb..(nm - 1) : Lookup(d, IndexKey(i)) = m.items[i + 1].val
        /\ (nm < nb /\ SamePrefix(b, m, nm))
              => /\ Keys = Between(nm, nb)
                 /\ \A i \in nm..(nb - 1) : Lookup(d, IndexKey(i)) = NullV

IntList(xs) == ListOf([i \in 1..Len(xs) |-> Entry("", IntV(xs[i]))])
Xs(l) == MapOf(<<Entry("xs", l)>>)

ListDiffExamples ==
    /\ object_diff(Xs(IntList(<<1, 2, 3>>)), Xs(IntList(<<1, 2, 3, 4>>)))
          = Xs(MapOf(<<Entry("3", IntV(4))>>))
    /\ object_diff(Xs(IntList(<<1, 2, 3>>)), Xs(IntList(<<1, 2>>)))
          = Xs(MapOf(<<Entry("2", NullV)>>))

BothLists == df_pc = "diffed" /\ df_base.t = "list" /\ df_other.t = "list"

PlainList(l) == \A i \in 1..Len(l.items) : l.items[i].val # NullV /\ Norm(l.items[i].val) = l.items[i].val

Violates ==
    IF cn_kind = "List" THEN cn_value # cn_c.length
    ELSE ~(LessEq(cn_c.lower, cn_value) /\ LessEq(cn_value, cn_c.upper))

\* C14: a decoded numeric value v satisfies Range{lower, upper} exactly when
\* lower <= v <= upper, and decoding a value that violates its Range or
\* Length sets the reader's failure flag and surfaces ConstraintViolation.
C14_ConstraintsEnforced ==
    /\ (cn_pc \in {"validated", "done"} /\ cn_kind \in NumericKinds)
          => (cn_valid <=> (LessEq(cn_c.lower, cn_value) /\ LessEq(cn_value, cn_c.upper)))
    /\ (cn_pc = "done" /\ Violates)
          => (cn_failed /\ cn_error = "ConstraintViolation")

\* ------------------------------------------------------------------------
\* Properties of the token dispatch of load_binary.
\* ------------------------------------------------------------------------

PrimitiveKinds == {"I32", "I64", "U32", "U64", "F32", "F64", "String", "Bool"}

\* load_binary is about to dispatch on a token of one of the kinds.
Dispatching(kinds) == pc = "dispatch" /\ token_pos < Len(tokens) /\ Token.kind \in kinds

\* C15: when load_binary dispatches on a primitive token it reads exactly
\* one value of that kind from the reader and writes that same value to
\* the writer before advancing to the next token.
C15_PrimitiveForwarded ==
    [][Dispatching(PrimitiveKinds)
         => /\ Len(rcalls') = Len(rcalls) + 1
            /\ Len(wcalls') = Len(wcalls) + 1
            /\ wcalls'[Len(wcalls')] = rcalls'[Len(rcalls')]
            /\ token_pos' = token_pos + 1]_vars

\* load_binary is at the head of its loop with an Optional frame on top.
AtOptional ==
    /\ pc = "head"
    /\ token_pos # Len(tokens)
    /\ steps < MaxSteps
    /\ states # <<>>
    /\ Top(states).type = "Optional"

\* C16: at an Optional site the presence flag is read once and forwarded to
\* the writer; the value subtree is decoded if and only if the flag says
\* present, and when it says absent decoding continues at value_tokens_end
\* with the frame gone and the subtree untouched.
C16_OptionalFollowsFlag ==
    [][AtOptional
         => LET present == reader_optional(data, reader).v
                flag == Call("optional", "", Flag(present))
            IN  /\ rcalls' = Append(rcalls, flag)
                /\ wcalls' = Append(wcalls, flag)
                /\ present => /\ pc' = "dispatch"
                              /\ token_pos' = Top(states).value_tokens_begin
                /\ ~present => /\ pc' = "head"
                               /\ token_pos' = Top(states).value_tokens_end
                               /\ states' = Pop(states)]_vars

\* The arms of the variant whose first token is at p: the positions of its
\* VariantNext tokens, and the position of its VariantEnd (-1 when the
\* schema ends before it).
RECURSIVE VariantArms(_, _, _)
VariantArms(toks, p, depth) ==
    IF p >= Len(toks) THEN [arms |-> <<>>, end |-> -1]
    ELSE LET kind == toks[p + 1].kind
         IN  IF kind \in {"ObjectBegin", "TupleBegin", "VariantBegin"}
             THEN VariantArms(toks, p + 1, depth + 1)
             ELSE IF kind \in {"ObjectEnd", "TupleEnd", "VariantEnd"}
             THEN IF depth > 0 THEN VariantArms(toks, p + 1, depth - 1)
                  ELSE [arms |-> <<>>, end |-> IF kind = "VariantEnd" THEN p ELSE -1]
             ELSE IF kind = "VariantNext" /\ depth = 0
             THEN LET rest == VariantArms(toks, p + 1, depth)
                  IN  [arms |-> <<p>> \o rest.arms, end |-> rest.end]
             ELSE VariantArms(toks, p + 1, depth)

\* The arms of the variant opened at q whose label the reader r matches.
Matched(r, q) ==
    LET arms == VariantArms(tokens, q + 1, 0).arms
    IN  {i \in 1..Len(arms) : reader_variant_match(r, tokens[arms[i] + 1].str)}

Closed(q) == VariantArms(tokens, q + 1, 0).end # -1

LoadExceptions == {"Invalid binary schema", "No matching variant", "Repeated variant labels"}

\* C17: at a VariantBegin whose VariantNext labels the reader matches
\* exactly once, load_binary does not raise: it forwards variant_begin with
\* the matched label to the writer once and pushes a Variant frame whose
\* value_tokens_begin is the first token of the matched arm and whose
\* value_tokens_end is past the VariantEnd.
C17_VariantOneMatch ==
    [][(Dispatching({"VariantBegin"}) /\ Closed(token_pos))
         => LET r == reader_variant_begin(data, reader, Token.labels)
                v == VariantArms(tokens, token_pos + 1, 0)
            IN  Cardinality(Matched(r, token_pos)) = 1
                  => LET arm == v.arms[CHOOSE i \in Matched(r, token_pos) : TRUE]
                     IN  /\ pc' = "head"
                         /\ exc' = ""
                         /\ wcalls' = Append(wcalls, Call("variant_begin",
                                                          tokens[arm + 1].str, 0))
                         /\ states' = Append(states, State("Variant", arm + 1, v.end + 1))]_vars

\* C18: at a VariantBegin whose VariantNext labels the reader matches not
\* at all, or more than once, load_binary raises LoadException; having
\* raised, it returns nothing.
C18_VariantNoOrRepeatedMatch ==
    [][/\ (Dispatching({"VariantBegin"}) /\ Closed(token_pos))
            => LET r == reader_variant_begin(data, reader, Token.labels)
               IN  Cardinality(Matched(r, token_pos)) # 1
                     => pc' = "threw" /\ exc' \in LoadExceptions
       /\ pc = "threw" => pc' = "threw"]_vars

\* load_binary has raised at a variant two of whose labels the reader matched.
C18_Witness ==
    /\ pc = "threw"
    /\ exc \in LoadExceptions
    /\ \E q \in 0..(Len(tokens) - 1) :
         /\ tokens[q + 1].kind = "VariantBegin"
         /\ token_pos = q + 2
         /\ Closed(q)
         /\ Cardinality(Matched(reader, q)) = 2

\* load_binary has raised at a variant none of whose labels the reader matched.
C18_WitnessNone ==
    /\ pc = "threw"
    /\ \E q \in 0..(Len(tokens) - 1) :
         /\ tokens[q + 1].kind = "VariantBegin"
         /\ Closed(q)
         /\ VariantArms(tokens, q + 1, 0).arms # <<>>
         /\ Matched(reader, q) = {}
         /\ rcalls # <<>>
         /\ rcalls[Len(rcalls)].op = "variant_match"

\* Number of calls in the log with the operation and the number.
CountCalls(calls, op, n) ==
    Cardinality({i \in 1..Len(calls) : calls[i].op = op /\ calls[i].n = n})

\* C19: for every List or Map opened by load_binary the writer's list_next /
\* map_next is called exactly as often as the reader's returned true, and
\* on normal return every list_begin / map_begin forwarded to the writer
\* has been matched by its list_end / map_end, wherever the container sits
\* in the schema.
C19_ContainersReplayedAndClosed ==
    /\ CountCalls(wcalls, "list_next", 0) = CountCalls(rcalls, "list_next", 1)
    /\ CountCalls(wcalls, "map_next", 0) = CountCalls(rcalls, "map_next", 1)
    /\ pc = "returned"
          => /\ CountCalls(wcalls, "list_begin", 0) = CountCalls(wcalls, "list_end", 0)
             /\ CountCalls(wcalls, "map_begin", 0) = CountCalls(wcalls, "map_end", 0)

\* The position just past the End that closes a container entered depth
\* levels deep at p (-1 when the schema ends before it).
RECURSIVE PastEnd(_, _, _)
PastEnd(toks, p, depth) ==
    IF p >= Len(toks) THEN -1
    ELSE LET kind == toks[p + 1].kind
         IN  IF kind \in {"ObjectBegin", "TupleBegin", "VariantBegin", "BinaryBegin"}
             THEN PastEnd(toks, p + 1, depth + 1)
             ELSE IF kind \in {"ObjectEnd", "TupleEnd", "VariantEnd", "BinaryEnd"}
             THEN IF depth = 1 THEN p + 1 ELSE PastEnd(toks, p + 1, depth - 1)
             ELSE PastEnd(toks, p + 1, depth)

\* The position just past the whole value subtree rooted at p: a Map, List
\* or Optional token consumes the subtree that follows it, a Begin token
\* runs to its End, any other token is a value by itself.
RECURSIVE SubtreeEnd(_, _)
SubtreeEnd(toks, p) ==
    IF p >= Len(toks) THEN -1
    ELSE LET kind == toks[p + 1].kind
         IN  IF kind \in {"Map", "List", "Optional"} THEN SubtreeEnd(toks, p + 1)
             ELSE IF kind \in {"ObjectBegin", "TupleBegin", "VariantBegin", "BinaryBegin"}
             THEN PastEnd(toks, p + 1, 1)
             ELSE p + 1

\* C20: for every position p that starts a value subtree of a well-formed
\* schema, get_tokens_end(tokens, p) is the position just past the whole
\* subtree rooted at p; load_binary takes it at the element subtree of
\* every Map, List and Optional frame it pushes.  For [List, I32] and p = 0
\* it is 2.
C20_TokensEndPastSubtree ==
    /\ \A i \in 1..Len(states) :
         (states[i].type \in {"Map", "List", "Optional"}
            /\ SubtreeEnd(tokens, states[i].value_tokens_begin) # -1)
           => states[i].value_tokens_end = SubtreeEnd(tokens, states[i].value_tokens_begin)
    /\ (pc = "returned" /\ tokens = <<Tok("List"), Tok("I32")>>)
          => get_tokens_end(tokens, 0) = 2

\* C21: when load_binary dispatches a Binary token, of stride 0 or not, it
\* reads the size from the reader and writes one binary payload of that
\* many bytes (count * stride for a stride) to the writer: every
\* binary_size read is followed by exactly one binary write.
C21_BinaryForwarded ==
    [][Dispatching({"Binary"})
         => LET size == reader_binary_size(data, reader, Token.size).v
            IN  /\ Len(wcalls') = Len(wcalls) + 1
                /\ wcalls'[Len(wcalls')].op = "binary"
                /\ wcalls'[Len(wcalls')].n = size]_vars

\* ------------------------------------------------------------------------
\* Properties of the label tables.
\* ------------------------------------------------------------------------

\* The labelled variant define ran on.
Defined == IF lb_sum = "Shape" THEN ShapeVariant ELSE TokenVariant

Query(j) ==
    Call("variant_match", vr_type.labels[j], Flag(vr_type.labels[j] \in vr_reader.matches))

\* The positions of the alternatives whose label the reader matches.
Hits == {j \in 1..Len(vr_type.labels) : vr_type.labels[j] \in vr_reader.matches}

FirstHit == CHOOSE j \in Hits : \A k \in Hits : j <= k

LastHit == CHOOSE j \in Hits : \A k \in Hits : k <= j

\* C23: read with a reader that is not exhaustive calls variant_begin,
\* queries variant_match on the alternatives in table order, reads the
\* value of the first that matches and queries no later one, then calls
\* variant_end; when none matches, error("No matching variant") is called
\* once before variant_end and the target is left unassigned.
C23_FirstMatchRead ==
    (vr_pc \in {"read", "ub"} /\ ~vr_reader.exhaustive)
      => /\ vr_pc = "read"
         /\ LET asked == IF Hits = {} THEN vr_type.arms ELSE FirstHit
            IN  /\ asked <= Len(vr_type.labels)
                /\ vr_result.calls =
                     <<Call("variant_begin", "", 0)>>
                     \o [j \in 1..asked |-> Query(j)]
                     \o (IF Hits = {}
                         THEN <<Call("error", "No matching variant", 0)>>
                         ELSE <<Call("value", "", FirstHit - 1)>>)
                     \o <<Call("variant_end", "", 0)>>
                /\ vr_result.arm = (IF Hits = {} THEN -1 ELSE FirstHit - 1)
                /\ vr_result.error = (Hits = {})

\* C24: read with an exhaustive reader queries variant_match on every
\* alternative in table order, reads the value of every one that matches
\* (the target ends holding the last), and never calls error, even when
\* none matches.
C24_EveryMatchRead ==
    (vr_pc \in {"read", "ub"} /\ vr_reader.exhaustive)
      => /\ vr_pc = "read"
         /\ vr_type.arms <= Len(vr_type.labels)
         /\ vr_result.calls =
              <<Call("variant_begin", "", 0)>>
              \o Flatten([j \in 1..vr_type.arms |->
                            IF j \in Hits THEN <<Query(j), Call("value", "", j - 1)>>
                            ELSE <<Query(j)>>])
              \o <<Call("variant_end", "", 0)>>
         /\ vr_result.arm = (IF Hits = {} THEN -1 ELSE LastHit - 1)
         /\ ~vr_result.error
         /\ CountCalls(vr_result.calls, "error", 0) = 0

\* The labels of the table of the sum.
TableLabels == {SumLabels(lb_sum)[i] : i \in 1..Len(SumLabels(lb_sum))}

\* C25: for Physics and Shape, from_label(to_label(v)) is v for every
\* enumerator / alternative v, to_label(from_label(l)) is l for every label
\* l of the table, and from_label of a label that is not in the table
\* raises an error and returns no value.
C25_LabelsRoundTrip ==
    lb_sum \in {"Physics", "Shape"}
      => /\ lb_pc # "ub"
         /\ lb_pc = "back" => lb_back = Found(lb_value)
         /\ lb_pc = "valued" =>
              IF lb_label \in TableLabels THEN lb_back.kind = "value"
              ELSE lb_back = Thrown("Invalid label")
         /\ lb_pc = "relabelled" => (lb_label \in TableLabels /\ lb_out = lb_label)

C25_Witness ==
    /\ lb_sum = "Physics"
    /\ lb_pc = "valued"
    /\ lb_label = "hexagon"
    /\ lb_back.kind = "threw"

\* ------------------------------------------------------------------------
\* Properties of the loop of load_binary.
\* ------------------------------------------------------------------------

Family(kind) ==
    CASE kind \in {"ObjectBegin", "ObjectEnd"} -> "Object"
      [] kind \in {"TupleBegin", "TupleEnd"} -> "Tuple"
      [] kind \in {"VariantBegin", "VariantEnd"} -> "Variant"
      [] OTHER -> ""

\* From position p on, with the containers of open still to be closed,
\* every End closes the Begin of its kind opened last and nothing stays open.
RECURSIVE BalancedFrom(_, _, _)
BalancedFrom(toks, p, open) ==
    IF p = Len(toks) THEN open = <<>>
    ELSE LET kind == toks[p + 1].kind
         IN  IF kind \in {"ObjectBegin", "TupleBegin", "VariantBegin"}
             THEN BalancedFrom(toks, p + 1, Append(open, Family(kind)))
             ELSE IF kind \in {"ObjectEnd", "TupleEnd", "VariantEnd"}
             THEN /\ open # <<>>
                  /\ open[Len(open)] = Family(kind)
                  /\ BalancedFrom(toks, p + 1, SubSeq(open, 1, Len(open) - 1))
             ELSE BalancedFrom(toks, p + 1, open)

\* Every Begin token of the schema has its End.
Balanced == BalancedFrom(tokens, 0, <<>>)

\* C26: for a schema whose Begin tokens all have their End, and finite
\* input, load_binary terminates.  Its loop is deterministic in token_pos,
\* the frame stack and the reader, so terminating means never being at the
\* loop head in a configuration it was at the loop head in before.
C26_Terminates ==
    (Balanced /\ pc = "head") => Configuration \notin heads

\* C27: every index load_binary reads schema.tokens at is below
\* tokens.size(): token_pos never passes tokens.size(), the token fetched
\* for dispatch is in range, and so is the first token the variant scan
\* reads after a VariantBegin, also when a Binary or a VariantBegin token
\* is the last token of the schema.
C27_TokenIndexInRange ==
    /\ token_pos <= Len(tokens)
    /\ pc = "dispatch" => token_pos < Len(tokens)
    /\ (pc = "dispatch" /\ token_pos < Len(tokens) /\ Token.kind = "VariantBegin")
         => token_pos + 1 < Len(tokens)

\* C28: for a schema whose Begin and End tokens are balanced, the frame
\* stack of load_binary is not empty when its top is consulted (at the loop
\* head) or popped (at an ObjectEnd or TupleEnd), and on normal return it
\* holds exactly the initial None frame.
C28_FramesBalanced ==
    Balanced
      => /\ (pc = "head" /\ token_pos # Len(tokens)) => states # <<>>
         /\ (pc = "dispatch" /\ token_pos < Len(tokens)
               /\ Token.kind \in {"ObjectEnd", "TupleEnd"}) => states # <<>>
         /\ pc = "returned" => states = <<State("None", 0, 0)>>

\* ------------------------------------------------------------------------
\* Properties of the handles, continued.
\* ------------------------------------------------------------------------

\* The operations that return a handle.
HandleOps ==
    {"Object_()", "Object_(value)", "root", "prev", "next", "parent", "child",
     "insert", "append"}

\* C29: a handle that converts to true refers to a live node of an existing
\* arena: no operation, root() on a default-constructed handle included,
\* leaves a truthy handle whose arena is absent or whose index is not a
\* node of the arena.
C29_TruthyHandleIsLive ==
    (ob_pc = "run" /\ ob_op.name \in HandleOps /\ operator_bool(ob_h)) => Live(ob_h)

\* C30: the label table of Token has one label for each of the 24 token
\* kinds, in the order of the alternatives and pairwise distinct, so
\* variant_to_label is defined for every token, Map included: it yields
\* the label at the position of the token's kind, and no other kind has
\* that label.
C30_TokenLabelTable ==
    (lb_sum = "Token" /\ lb_value # "" /\ lb_pc # "value")
      => LET index == TokenIndex(Tok(lb_value))
         IN  /\ lb_pc # "ub"
             /\ index < Len(TokenLabels)
             /\ lb_label = TokenLabels[index + 1]
             /\ \A k \in 1..Len(TokenLabels) : k # index + 1 => TokenLabels[k] # lb_label

\* C31: reading a labelled enum never yields a value outside its label
\* table: when the index reader.enumerate(labels) returned is negative or
\* not below labels.size(), read marks the reader failed and does not
\* store the index, cast to the enum type, into the target.
C31_EnumReadInTable ==
    lb_pc = "enum_read"
      => /\ lb_target \in 0..(Len(PhysicsLabels) - 1)
         /\ lb_index \notin 0..(Len(PhysicsLabels) - 1) => lb_failed
         /\ lb_index \in 0..(Len(PhysicsLabels) - 1) => lb_target = lb_index

====
